---- MODULE Spec2Model ----
(***************************************************************************)
(* Hybrid XBRL validation pipeline (eazyy332/XBRL, src/python).            *)
(*                                                                         *)
(* The module models four parts of the program, each under a               *)
(* specification of its own over the shared variables:                     *)
(*   SpecValidator  DMPValidator.validate_facts                            *)
(*   SpecResolver   DMPConceptResolver.resolve_concept_from_dmp            *)
(*   SpecHybrid     HybridValidationEngine.validate_hybrid                 *)
(*   SpecRules      DMPRuleEngine.validate_facts_against_rules             *)
(* Python strings are TLA+ strings; Python's None is the value NoneVal.    *)
(***************************************************************************)
EXTENDS Integers, Sequences, FiniteSets, TLC

VARIABLES
    pc,                  \* position of the modelled call
    facts,               \* the facts dictionary handed to the operation
    concept_resolutions, \* result of the concept-resolution stage
    validation_result,   \* DMPValidator.validate_facts: the returned dictionary
    dmp_db,              \* dmp_database.dmp_db: the active dictionary database
    concept_cache,       \* concept_resolver.concept_cache: name -> Concept
    calls,               \* history of resolve_concept_from_dmp calls
    reinitialized,       \* number of times switch_database re-opened the database
    rules_cache,         \* DMPRuleEngine.rules_cache: the processed rules, in dictionary order
    raising,             \* the rule codes whose evaluation raises an exception in this run
    rule_validation,     \* DMPRuleEngine.validate_facts_against_rules: the returned dictionary
    engine,              \* the HybridValidationEngine instance
    run_input,           \* what one validate_hybrid run meets: taxonomy, parse outcome, external validator
    hybrid_result,       \* HybridValidationEngine.validate_hybrid: the returned dictionary
    xbrl_path,           \* the path of the instance file handed to the detector or the parser
    document,            \* the file at xbrl_path
    detected,            \* detect_architecture_version: the returned value
    parsed_data,         \* XBRLFactParser.parse_xbrl_instance: the returned dictionary
    arelle_runner        \* the ArelleRunner instance: arelle_available and its result cache

vars == <<pc, facts, concept_resolutions, validation_result, dmp_db, concept_cache, calls,
          reinitialized, rules_cache, raising, rule_validation, engine, run_input,
          hybrid_result, xbrl_path, document, detected, parsed_data, arelle_runner>>

resolverVars == <<dmp_db, concept_cache, calls, reinitialized>>
ruleVars == <<rules_cache, raising, rule_validation>>
hybridVars == <<engine, run_input, hybrid_result>>
instanceVars == <<xbrl_path, document, detected, parsed_data>>

NoneVal == "<None>"

\* the values of the variables a specification does not use
IdleValidator == validation_result = [status |-> "not_run"]

IdleResolver ==
    /\ dmp_db = NoneVal
    /\ concept_cache = <<>>
    /\ calls = <<>>
    /\ reinitialized = 0

IdleRules ==
    /\ rules_cache = <<>>
    /\ raising = {}
    /\ rule_validation = [status |-> "not_run"]

IdleHybrid ==
    /\ engine = NoneVal
    /\ run_input = NoneVal
    /\ hybrid_result = [status |-> "not_run"]

IdleInstance ==
    /\ xbrl_path = NoneVal
    /\ document = NoneVal
    /\ detected = NoneVal
    /\ parsed_data = [status |-> "not_run"]

IdleArelle == arelle_runner = NoneVal

(***************************************************************************)
(* Bounds of the model.                                                    *)
(***************************************************************************)
MaxFacts == 2
MaxInstances == 2
MaxCalls == 2
MaxSwitches == 1
MaxRules == 2
MaxHybridFacts == 3

(***************************************************************************)
(* String helpers: Python's `in`, str.split(':'), str.strip, float().      *)
(***************************************************************************)
Contains(s, sub) ==
    \E i \in 1..(Len(s) + 1 - Len(sub)) : SubSeq(s, i, i + Len(sub) - 1) = sub

RECURSIVE Strip(_)
Strip(s) ==
    IF s = "" THEN ""
    ELSE IF SubSeq(s, 1, 1) = " " THEN Strip(SubSeq(s, 2, Len(s)))
    ELSE IF SubSeq(s, Len(s), Len(s)) = " " THEN Strip(SubSeq(s, 1, Len(s) - 1))
    ELSE s

Digits == {"0", "1", "2", "3", "4", "5", "6", "7", "8", "9"}

AllDigits(s) == Len(s) > 0 /\ \A i \in 1..Len(s) : SubSeq(s, i, i) \in Digits

\* float(value) succeeds on the decimal literals of the model's alphabet:
\* an optional sign followed by digits, surrounded by optional blanks.
IsFloat(s) ==
    LET t == Strip(s)
    IN  \/ AllDigits(t)
        \/ Len(t) > 1 /\ SubSeq(t, 1, 1) \in {"-", "+"} /\ AllDigits(SubSeq(t, 2, Len(t)))

IsNegativeFloat(s) ==
    LET t == Strip(s)
    IN  /\ IsFloat(s)
        /\ SubSeq(t, 1, 1) = "-"
        /\ \E i \in 2..Len(t) : SubSeq(t, i, i) # "0"

RECURSIVE StripZeros(_)
StripZeros(s) ==
    IF Len(s) > 1 /\ SubSeq(s, 1, 1) = "0" THEN StripZeros(SubSeq(s, 2, Len(s))) ELSE s

\* float_value > 100 for a non-negative literal
Above100(s) ==
    LET t == Strip(s)
        u == StripZeros(IF SubSeq(t, 1, 1) = "+" THEN SubSeq(t, 2, Len(t)) ELSE t)
    IN  /\ IsFloat(s)
        /\ ~IsNegativeFloat(s)
        /\ SubSeq(t, 1, 1) # "-"
        /\ \/ Len(u) > 3
           \/ Len(u) = 3 /\ u # "100"

LowerAlphabet == "abcdefghijklmnopqrstuvwxyz"
UpperAlphabet == "ABCDEFGHIJKLMNOPQRSTUVWXYZ"

MapChar(c, from, to) ==
    IF \E i \in 1..Len(from) : SubSeq(from, i, i) = c
    THEN LET i == CHOOSE i \in 1..Len(from) : SubSeq(from, i, i) = c
         IN  SubSeq(to, i, i)
    ELSE c

RECURSIVE Lower(_)
Lower(s) ==
    IF s = "" THEN ""
    ELSE MapChar(SubSeq(s, 1, 1), UpperAlphabet, LowerAlphabet) \o Lower(SubSeq(s, 2, Len(s)))

RECURSIVE Upper(_)
Upper(s) ==
    IF s = "" THEN ""
    ELSE MapChar(SubSeq(s, 1, 1), LowerAlphabet, UpperAlphabet) \o Upper(SubSeq(s, 2, Len(s)))

\* positions of ':' in s
Colons(s) == {i \in 1..Len(s) : SubSeq(s, i, i) = ":"}

Min(S) == CHOOSE x \in S : \A y \in S : x <= y
Max(S) == CHOOSE x \in S : \A y \in S : x >= y

\* s.split(':', 1)[0] and s.split(':', 1)[1], for s containing ':'
BeforeFirstColon(s) == SubSeq(s, 1, Min(Colons(s)) - 1)
AfterFirstColon(s) == SubSeq(s, Min(Colons(s)) + 1, Len(s))

\* s.split(':')[-1]
AfterLastColon(s) == IF Colons(s) = {} THEN s ELSE SubSeq(s, Max(Colons(s)) + 1, Len(s))

RECURSIVE SumSeq(_)
SumSeq(s) == IF s = <<>> THEN 0 ELSE Head(s) + SumSeq(Tail(s))

RECURSIVE FlattenSeq(_)
FlattenSeq(ss) == IF ss = <<>> THEN <<>> ELSE Head(ss) \o FlattenSeq(Tail(ss))

SelectIssues(issues, sev) == SelectSeq(issues, LAMBDA i : i.severity = sev)

(***************************************************************************)
(* DMPValidator (dmp_validator.py).                                        *)
(* A facts dictionary is a sequence of entries in insertion order; an      *)
(* entry whose value is a list of fact records has is_list = TRUE, an      *)
(* entry whose value is one fact record has is_list = FALSE and one item.  *)
(***************************************************************************)
NumericTypes == {"Monetary", "Percentage", "Number"}

_validate_fact_value(value, concept_type) ==
    IF value = NoneVal \/ value = "" \/ Strip(value) = ""
    THEN <<[type |-> "empty_value", severity |-> "error"]>>
    ELSE IF concept_type \in NumericTypes
    THEN IF ~IsFloat(value)
         THEN <<[type |-> "invalid_numeric_value", severity |-> "error"]>>
         ELSE (IF concept_type = "Percentage" /\ (IsNegativeFloat(value) \/ Above100(value))
               THEN <<[type |-> "value_out_of_range", severity |-> "warning"]>>
               ELSE <<>>)
              \o
              (IF concept_type = "Monetary" /\ IsNegativeFloat(value)
               THEN <<[type |-> "negative_monetary", severity |-> "warning"]>>
               ELSE <<>>)
    ELSE <<>>

_validate_context_requirements(fact_data) ==
    IF fact_data.context = NoneVal \/ fact_data.context = ""
    THEN <<[type |-> "missing_context", severity |-> "error"]>>
    ELSE <<>>

_validate_unit_requirements(fact_data, concept_type) ==
    IF concept_type \in NumericTypes /\ (fact_data.unit = NoneVal \/ fact_data.unit = "")
    THEN <<[type |-> "missing_unit", severity |-> "warning"]>>
    ELSE <<>>

\* Python's None where a resolution detail is expected
NoResolution ==
    [fact_name |-> NoneVal, resolved |-> FALSE, concept_code |-> NoneVal,
     concept_type |-> NoneVal, source_table |-> NoneVal]

\* resolved_concepts.get(fact_name): the last resolved detail of that name, or None
ResolvedConceptOf(resolution_details, fact_name) ==
    LET hits == SelectSeq(resolution_details,
                          LAMBDA d : d.fact_name = fact_name /\ d.resolved)
    IN  IF hits = <<>> THEN NoResolution ELSE hits[Len(hits)]

\* The call fact_data.get('value') on a list raises AttributeError: raised = TRUE.
_validate_single_fact(entry, concept_resolution) ==
    IF entry.is_list
    THEN [raised |-> TRUE, fact_name |-> entry.name,
          validation_status |-> "none", issues |-> <<>>]
    ELSE IF ~concept_resolution.resolved
    THEN [raised |-> FALSE, fact_name |-> entry.name,
          validation_status |-> "unresolved",
          issues |-> <<[type |-> "concept_not_found", severity |-> "error"]>>]
    ELSE LET fact_data == entry.items[1]
             issues == _validate_fact_value(fact_data.value, concept_resolution.concept_type)
                       \o _validate_context_requirements(fact_data)
                       \o _validate_unit_requirements(fact_data, concept_resolution.concept_type)
         IN  [raised |-> FALSE, fact_name |-> entry.name,
              validation_status |->
                  IF SelectIssues(issues, "error") # <<>> THEN "invalid"
                  ELSE IF SelectIssues(issues, "warning") # <<>> THEN "warning"
                  ELSE "valid",
              issues |-> issues]

CountStatus(fact_validations, status) ==
    Len(SelectSeq(fact_validations, LAMBDA v : v.validation_status = status))

validate_facts(fs, resolutions) ==
    LET one(i) == _validate_single_fact(
                      fs[i], ResolvedConceptOf(resolutions.resolution_details, fs[i].name))
        fact_validations == [i \in 1..Len(fs) |-> one(i)]
    IN  IF \E i \in 1..Len(fs) : one(i).raised
        THEN [method |-> "pure_dmp_database", status |-> "error"]
        ELSE [method |-> "pure_dmp_database",
              status |-> "completed",
              total_facts |-> Len(fs),
              validation_summary |->
                  [valid_facts |-> CountStatus(fact_validations, "valid"),
                   invalid_facts |-> CountStatus(fact_validations, "invalid"),
                   warning_facts |-> CountStatus(fact_validations, "warning"),
                   unresolved_facts |-> CountStatus(fact_validations, "unresolved")],
              fact_validations |-> fact_validations,
              data_quality_issues |->
                  FlattenSeq([i \in 1..Len(fs) |-> fact_validations[i].issues])]

(***************************************************************************)
(* Inputs of SpecValidator: dictionaries shaped like those of              *)
(* tests/test_dmp_validator.py.                                            *)
(***************************************************************************)
TestFactNames == <<"met:factA", "met:factB", "met:factC">>

TestFactRecords ==
    {[value |-> v, context |-> "c1", unit |-> "EUR"] : v \in {"100", ""}}

TestFactEntries(name) ==
    {[name |-> name, is_list |-> FALSE, items |-> <<r>>] : r \in TestFactRecords}
    \cup
    {[name |-> name, is_list |-> TRUE, items |-> items] :
        items \in UNION {[1..n -> TestFactRecords] : n \in 1..MaxInstances}}

\* dictionaries over a prefix-closed choice of the names, one entry per name
TestFactDicts ==
    UNION {{f \in [1..n -> UNION {TestFactEntries(TestFactNames[k]) : k \in 1..n}] :
                \A i \in 1..n : f[i].name = TestFactNames[i]} : n \in 0..MaxFacts}

TestResolutionDetail(name, resolved) ==
    [fact_name |-> name, resolved |-> resolved,
     concept_code |-> IF resolved THEN "FA" ELSE NoneVal,
     concept_type |-> IF resolved THEN "Monetary" ELSE NoneVal,
     source_table |-> IF resolved THEN "t1" ELSE NoneVal]

TestResolutions(fs) ==
    {[timestamp |-> "2024-01-01", resolution_details |-> d] :
        d \in {g \in [1..Len(fs) -> UNION {{TestResolutionDetail(fs[i].name, b) :
                                               b \in BOOLEAN} : i \in 1..Len(fs)}] :
                   \A i \in 1..Len(fs) : g[i].fact_name = fs[i].name}}

InstanceCount(fs) == SumSeq([i \in 1..Len(fs) |-> Len(fs[i].items)])

InitValidator ==
    /\ IdleArelle
    /\ pc = "validator_ready"
    /\ facts \in TestFactDicts
    /\ concept_resolutions \in TestResolutions(facts)
    /\ validation_result = [status |-> "not_run"]
    /\ IdleResolver
    /\ IdleRules
    /\ IdleHybrid
    /\ IdleInstance

ValidateFacts ==
    /\ pc = "validator_ready"
    /\ validation_result' = validate_facts(facts, concept_resolutions)
    /\ pc' = "validator_done"
    /\ UNCHANGED <<arelle_runner, facts, concept_resolutions, resolverVars, ruleVars, hybridVars, instanceVars>>

NextValidator == ValidateFacts

SpecValidator == InitValidator /\ [][NextValidator]_vars

\* C1: validate_facts counts every fact instance: total_facts, the number of
\* fact_validations and the sum of the four summary counters all equal the
\* number of instances over all names, repeated facts (lists) included.
C1_EveryInstanceCounted ==
    pc = "validator_done" =>
        /\ validation_result.status = "completed"
        /\ validation_result.total_facts = InstanceCount(facts)
        /\ Len(validation_result.fact_validations) = InstanceCount(facts)
        /\ LET s == validation_result.validation_summary
           IN  s.valid_facts + s.invalid_facts + s.warning_facts + s.unresolved_facts
                   = InstanceCount(facts)

(***************************************************************************)
(* DMPConceptResolver (dmp_concept_resolver.py) over the dictionary        *)
(* database (dmp_database.py).  A store is one database file: the set of   *)
(* its tables, the rows of each table in physical order, whether a         *)
(* connection can be opened, and whether its string comparison ignores     *)
(* case.  fetchone() returns the first matching row.  The names used carry *)
(* no LIKE wildcard characters.                                            *)
(***************************************************************************)
NoConcept ==
    [found |-> FALSE, ConceptCode |-> NoneVal, ConceptLabel |-> NoneVal,
     ConceptType |-> NoneVal, MemberXbrlCode |-> NoneVal,
     source |-> NoneVal, searchType |-> NoneVal]

Concept(code, label, type, source) ==
    [found |-> TRUE, ConceptCode |-> code, ConceptLabel |-> label,
     ConceptType |-> type, MemberXbrlCode |-> NoneVal,
     source |-> source, searchType |-> NoneVal]

\* the database file the facade currently points at
ActiveStore(db) == IF db.db_path = "dmp_3_3_path" THEN db.dmp_3_3 ELSE db.dmp_4_0

SqlEquals(store, column, value) ==
    IF store.case_insensitive THEN Lower(column) = Lower(value) ELSE column = value

\* column LIKE '%value%'
SqlLike(store, column, value) ==
    IF store.case_insensitive THEN Contains(Lower(column), Lower(value))
    ELSE Contains(column, value)

\* index of the row fetchone() returns, 0 when the result set is empty;
\* matches[i] tells whether row i satisfies the WHERE clause
FetchOne(matches) ==
    IF \E i \in 1..Len(matches) : matches[i]
    THEN Min({i \in 1..Len(matches) : matches[i]})
    ELSE 0

TableCandidates(expected_name) ==
    IF expected_name = "tConcept" THEN <<"tConcept", "DimensionalItem", "Item", "PrimaryItem">>
    ELSE IF expected_name = "tDataPoint" THEN <<"tDataPoint">>
    ELSE IF expected_name = "tMember" THEN <<"tMember">>
    ELSE IF expected_name = "tValidationRule"
    THEN <<"tValidationRule", "ValidationRuleSet", "HierarchyValidationRule", "ValidationRule">>
    ELSE <<>>

\* expected_name has an entry in queries_manager.table_mappings
TableMapped(store, expected_name) ==
    /\ store.available
    /\ \E i \in 1..Len(TableCandidates(expected_name)) :
          TableCandidates(expected_name)[i] \in store.tables

_detect_database_version(store) ==
    IF "DimensionalItem" \in store.tables THEN "dmp_3_3"
    ELSE IF "tConcept" \in store.tables THEN "dmp_4_0"
    ELSE "dmp_3_3"

_clean_concept_name(concept_name) ==
    IF Colons(concept_name) # {} THEN AfterFirstColon(concept_name) ELSE concept_name

ItemConcept(rows, i, source) ==
    IF i = 0 THEN NoConcept ELSE Concept(rows[i].Code, rows[i].Label, source, source)

ConceptRow(rows, i) ==
    IF i = 0 THEN NoConcept
    ELSE Concept(rows[i].ConceptCode, rows[i].ConceptLabel, rows[i].ConceptType, "tConcept")

_search_by_exact_match(store, concept_name) ==
    IF ~store.available THEN NoConcept
    ELSE IF _detect_database_version(store) = "dmp_3_3"
    THEN LET m(r) == SqlEquals(store, r.Code, concept_name) \/ SqlLike(store, r.Code, concept_name)
         IN  IF "DimensionalItem" \in store.tables
             THEN ItemConcept(store.DimensionalItem, FetchOne([i \in 1..Len(store.DimensionalItem) |-> m(store.DimensionalItem[i])]), "DimensionalItem")
             ELSE IF "Item" \in store.tables
             THEN ItemConcept(store.Item, FetchOne([i \in 1..Len(store.Item) |-> m(store.Item[i])]), "Item")
             ELSE NoConcept
    ELSE IF TableMapped(store, "tConcept")
    THEN LET m(r) == \/ SqlEquals(store, r.ConceptCode, concept_name)
                     \/ SqlEquals(store, r.ConceptLabel, concept_name)
         IN  ConceptRow(store.tConcept, FetchOne([i \in 1..Len(store.tConcept) |-> m(store.tConcept[i])]))
    ELSE NoConcept

_search_by_clean_name(store, clean_name) ==
    IF ~store.available THEN NoConcept
    ELSE IF _detect_database_version(store) = "dmp_3_3"
    THEN LET m(r) == SqlLike(store, r.Code, clean_name) \/ SqlLike(store, r.Label, clean_name)
             d == IF "DimensionalItem" \in store.tables
                  THEN ItemConcept(store.DimensionalItem, FetchOne([i \in 1..Len(store.DimensionalItem) |-> m(store.DimensionalItem[i])]), "DimensionalItem")
                  ELSE NoConcept
         IN  IF d.found THEN d
             ELSE IF "PrimaryItem" \in store.tables
             THEN ItemConcept(store.PrimaryItem, FetchOne([i \in 1..Len(store.PrimaryItem) |-> m(store.PrimaryItem[i])]), "PrimaryItem")
             ELSE NoConcept
    ELSE LET mc(r) == \/ SqlLike(store, r.ConceptCode, clean_name)
                      \/ SqlLike(store, r.ConceptLabel, clean_name)
             md(r) == \/ SqlLike(store, r.DataPointCode, clean_name)
                      \/ SqlLike(store, r.DataPointLabel, clean_name)
             c == IF TableMapped(store, "tConcept")
                  THEN ConceptRow(store.tConcept, FetchOne([i \in 1..Len(store.tConcept) |-> mc(store.tConcept[i])]))
                  ELSE NoConcept
             i == FetchOne([j \in 1..Len(store.tDataPoint) |-> md(store.tDataPoint[j])])
         IN  IF c.found THEN c
             ELSE IF TableMapped(store, "tDataPoint") /\ i > 0
             THEN Concept(store.tDataPoint[i].DataPointCode, store.tDataPoint[i].DataPointLabel,
                          "DataPoint", "tDataPoint")
             ELSE NoConcept

prefix_mappings(prefix) ==
    IF prefix \in {"eba_met", "eba_met_3.4", "eba_met_4.0"} THEN <<"eba_met", "find">>
    ELSE IF prefix = "find" THEN <<"find", "eba_met">>
    ELSE <<prefix>>

_search_by_prefix_variants(store, concept_name) ==
    IF Colons(concept_name) = {} THEN NoConcept
    ELSE IF ~store.available THEN NoConcept
    ELSE IF _detect_database_version(store) = "dmp_3_3" THEN NoConcept
    ELSE IF ~TableMapped(store, "tConcept") THEN NoConcept
    ELSE LET variants == prefix_mappings(BeforeFirstColon(concept_name))
             local_name == AfterFirstColon(concept_name)
             hit(v) == FetchOne([i \in 1..Len(store.tConcept) |->
                           SqlEquals(store, store.tConcept[i].ConceptCode,
                                     variants[v] \o ":" \o local_name)])
             hits == {v \in 1..Len(variants) : hit(v) > 0}
         IN  IF hits = {} THEN NoConcept ELSE ConceptRow(store.tConcept, hit(Min(hits)))

_search_by_partial_match(store, clean_name) ==
    IF ~store.available THEN NoConcept
    ELSE IF _detect_database_version(store) = "dmp_3_3" THEN NoConcept
    ELSE IF ~TableMapped(store, "tConcept") THEN NoConcept
    ELSE LET patterns == <<clean_name, Upper(clean_name), Lower(clean_name)>>
             hit(k) == FetchOne([i \in 1..Len(store.tConcept) |->
                           SqlLike(store, store.tConcept[i].ConceptCode, patterns[k])])
             hits == {k \in 1..Len(patterns) : hit(k) > 0}
         IN  IF hits = {} THEN NoConcept ELSE ConceptRow(store.tConcept, hit(Min(hits)))

_search_in_member_table(store, concept_name) ==
    IF ~store.available THEN NoConcept
    ELSE IF ~TableMapped(store, "tMember") THEN NoConcept
    ELSE LET clean_name == _clean_concept_name(concept_name)
             search_patterns == <<[pattern |-> concept_name, search_type |-> "exact match"],
                                  [pattern |-> clean_name, search_type |-> "clean name exact match"],
                                  [pattern |-> concept_name, search_type |-> "concept name partial match"],
                                  [pattern |-> clean_name, search_type |-> "clean name partial match"]>>
             m(k, r) == IF Contains(search_patterns[k].search_type, "partial")
                        THEN \/ SqlLike(store, r.MemberCode, search_patterns[k].pattern)
                             \/ SqlLike(store, r.MemberXbrlCode, search_patterns[k].pattern)
                        ELSE \/ SqlEquals(store, r.MemberCode, search_patterns[k].pattern)
                             \/ SqlEquals(store, r.MemberXbrlCode, search_patterns[k].pattern)
             hit(k) == FetchOne([i \in 1..Len(store.tMember) |-> m(k, store.tMember[i])])
             hits == {k \in 1..Len(search_patterns) : hit(k) > 0}
         IN  IF hits = {} THEN NoConcept
             ELSE LET k == Min(hits)
                      row == store.tMember[hit(k)]
                  IN  [found |-> TRUE, ConceptCode |-> row.MemberCode,
                       ConceptLabel |-> row.MemberLabel, ConceptType |-> "Member",
                       MemberXbrlCode |-> row.MemberXbrlCode, source |-> "tMember",
                       searchType |-> search_patterns[k].search_type]

_search_using_queries_manager(store, concept_name) == NoConcept

\* a cascade that tries the partial match before the exact match
SearchStrategiesPartialFirst(store, concept_name) ==
    LET clean_concept == _clean_concept_name(concept_name)
    IN  <<_search_by_partial_match(store, clean_concept),
          _search_by_exact_match(store, concept_name),
          _search_by_clean_name(store, clean_concept),
          _search_by_prefix_variants(store, concept_name),
          _search_in_member_table(store, concept_name),
          _search_using_queries_manager(store, concept_name)>>

\* the six strategies in the order of the "or" chain
SearchStrategies(store, concept_name) ==
    LET clean_concept == _clean_concept_name(concept_name)
    IN  <<_search_by_exact_match(store, concept_name),
          _search_by_clean_name(store, clean_concept),
          _search_by_prefix_variants(store, concept_name),
          _search_by_partial_match(store, clean_concept),
          _search_in_member_table(store, concept_name),
          _search_using_queries_manager(store, concept_name)>>

\* a or b or ... : the first operand that is not None
FirstFound(results) ==
    IF \E k \in 1..Len(results) : results[k].found
    THEN results[Min({k \in 1..Len(results) : results[k].found})]
    ELSE NoConcept

\* the number of runs of _detect_database_version in one uncached call: the
\* strategies run until the first hit, and the exact, clean-name,
\* prefix-variant and partial strategies each probe once they hold a connection
ProbeCount(store, concept_name) ==
    LET results == SearchStrategies(store, concept_name)
        executed == IF \E k \in 1..Len(results) : results[k].found
                    THEN Min({k \in 1..Len(results) : results[k].found})
                    ELSE Len(results)
        Probes(k) == /\ store.available
                     /\ k \in 1..4
                     /\ k = 3 => Colons(concept_name) # {}
    IN  Cardinality({k \in 1..executed : Probes(k)})

\* a resolver that neither consults nor fills its cache
resolve_without_cache(db, cache, concept_name) ==
    [result |-> FirstFound(<<_search_by_exact_match(ActiveStore(db), concept_name),
                            _search_by_clean_name(ActiveStore(db), _clean_concept_name(concept_name)),
                            _search_in_member_table(ActiveStore(db), concept_name)>>),
     cache |-> cache,
     store_queried |-> TRUE]

\* resolve_concept_from_dmp: the returned Concept, the cache after the call,
\* and whether the call went to the store
resolve_concept_from_dmp(db, cache, concept_name) ==
    IF concept_name \in DOMAIN cache
    THEN [result |-> cache[concept_name], cache |-> cache, store_queried |-> FALSE]
    ELSE LET dmp_concept == FirstFound(SearchStrategies(ActiveStore(db), concept_name))
         IN  [result |-> dmp_concept,
              cache |-> IF dmp_concept.found
                        THEN [n \in DOMAIN cache \cup {concept_name} |->
                                 IF n = concept_name THEN dmp_concept ELSE cache[n]]
                        ELSE cache,
              store_queried |-> TRUE]

EmptyStore ==
    [available |-> TRUE, case_insensitive |-> TRUE, tables |-> {},
     tConcept |-> <<>>, tDataPoint |-> <<>>, tMember |-> <<>>,
     DimensionalItem |-> <<>>, PrimaryItem |-> <<>>, Item |-> <<>>,
     validation_rules |-> <<>>, ValidationRuleSet |-> <<>>, rule_query_fails |-> FALSE]

\* a DPM 4.0 dictionary
TestStore40(case_insensitive, tables) ==
    [EmptyStore EXCEPT
        !.case_insensitive = case_insensitive,
        !.tables = tables,
        !.tConcept = <<[ConceptCode |-> "eba:mi531", ConceptLabel |-> "Total", ConceptType |-> "Monetary"],
                       [ConceptCode |-> "find:mi53", ConceptLabel |-> "Assets", ConceptType |-> "Monetary"],
                       [ConceptCode |-> "find:QX7", ConceptLabel |-> "Ratio", ConceptType |-> "Percentage"]>>,
        !.tDataPoint = <<[DataPointCode |-> "dp88", DataPointLabel |-> "Row"]>>,
        !.tMember = <<[MemberCode |-> "x1", MemberXbrlCode |-> "dim:x1", MemberLabel |-> "One"]>>]

\* a DPM 3.3 dictionary
TestStore33(tables) ==
    [EmptyStore EXCEPT
        !.tables = tables,
        !.DimensionalItem = <<[Code |-> "xmi53y", Label |-> "Wide"],
                              [Code |-> "mi53", Label |-> "Assets"]>>,
        !.PrimaryItem = <<[Code |-> "QX7", Label |-> "Ratio"]>>,
        !.Item = <<[Code |-> "find:mi53", Label |-> "Item"]>>]

TestStores40 ==
    {TestStore40(TRUE, {"tConcept", "tDataPoint", "tMember"}),
     TestStore40(FALSE, {"tConcept", "tDataPoint", "tMember"}),
     TestStore40(FALSE, {"tConcept"})}

TestStores33 ==
    {TestStore33({"DimensionalItem", "PrimaryItem", "Item"}),
     TestStore33({"Item"}),
     [EmptyStore EXCEPT !.available = FALSE]}

TestConceptNames == {"find:mi53", "find:qx7", "met:dp88", "dim:x1", "Assets", "met:zz"}

ArchitectureVersions == {"arch_1_0", "arch_2_0", "unknown"}

InitResolver ==
    /\ IdleArelle
    /\ pc = "resolver_ready"
    /\ dmp_db \in {[db_path |-> "dmp_4_0_path", dmp_3_3 |-> s33, dmp_4_0 |-> s40] :
                      s33 \in TestStores33, s40 \in TestStores40}
    /\ concept_cache = [n \in {} |-> NoConcept]
    /\ calls = <<>>
    /\ reinitialized = 0
    /\ facts = <<>>
    /\ concept_resolutions = [timestamp |-> NoneVal, resolution_details |-> <<>>]
    /\ IdleValidator
    /\ IdleRules
    /\ IdleHybrid
    /\ IdleInstance

\* concept_resolver.resolve_concept_from_dmp(concept_name)
ResolveConcept ==
    /\ pc = "resolver_ready"
    /\ Len(calls) < MaxCalls
    /\ \E concept_name \in TestConceptNames :
          LET r == resolve_concept_from_dmp(dmp_db, concept_cache, concept_name)
          IN  /\ concept_cache' = r.cache
              /\ calls' = Append(calls, [concept_name |-> concept_name,
                                         result |-> r.result,
                                         store_queried |-> r.store_queried,
                                         probes |-> IF r.store_queried
                                                    THEN ProbeCount(ActiveStore(dmp_db),
                                                                    concept_name)
                                                    ELSE 0,
                                         db_path |-> dmp_db.db_path,
                                         reinitialized |-> reinitialized])
    /\ UNCHANGED <<arelle_runner, pc, dmp_db, reinitialized, facts, concept_resolutions, validation_result,
                   ruleVars, hybridVars, instanceVars>>

\* dmp_db.switch_database(architecture_version)
switch_database(db, architecture_version) ==
    [db EXCEPT !.db_path = IF architecture_version = "arch_1_0"
                           THEN "dmp_3_3_path" ELSE "dmp_4_0_path"]

SwitchDatabase ==
    /\ pc = "resolver_ready"
    /\ reinitialized < MaxSwitches
    /\ \E architecture_version \in ArchitectureVersions :
          /\ dmp_db' = switch_database(dmp_db, architecture_version)
          /\ reinitialized' = IF dmp_db'.db_path # dmp_db.db_path
                              THEN reinitialized + 1 ELSE reinitialized
    /\ UNCHANGED <<arelle_runner, pc, concept_cache, calls, facts, concept_resolutions, validation_result,
                   ruleVars, hybridVars, instanceVars>>

NextResolver == ResolveConcept \/ SwitchDatabase

SpecResolver == InitResolver /\ [][NextResolver]_vars

\* the store a recorded call ran against
StoreOfCall(call) == ActiveStore([dmp_db EXCEPT !.db_path = call.db_path])

ExactHit(call) == _search_by_exact_match(StoreOfCall(call), call.concept_name)
CleanHit(call) == _search_by_clean_name(StoreOfCall(call), _clean_concept_name(call.concept_name))
PrefixHit(call) == _search_by_prefix_variants(StoreOfCall(call), call.concept_name)
PartialHit(call) == _search_by_partial_match(StoreOfCall(call), _clean_concept_name(call.concept_name))
MemberHit(call) == _search_in_member_table(StoreOfCall(call), call.concept_name)

\* what a returned Concept says about where it came from
Provenance(concept) == <<concept.source, concept.searchType>>

C5_CacheIdempotent ==
    \A i \in 1..Len(calls) : \A j \in 1..Len(calls) :
        (/\ i < j
         /\ calls[i].concept_name = calls[j].concept_name
         /\ calls[i].reinitialized = calls[j].reinitialized
         /\ calls[i].result.found)
            => /\ calls[j].result = calls[i].result
               /\ ~calls[j].store_queried

\* a resolved name was asked for again against the same dictionary
C5_Witness ==
    \E i \in 1..Len(calls) : \E j \in 1..Len(calls) :
        /\ i < j
        /\ calls[i].concept_name = calls[j].concept_name
        /\ calls[i].reinitialized = calls[j].reinitialized
        /\ calls[i].store_queried
        /\ calls[i].result.found
        /\ calls[j].result = calls[i].result
        /\ ~calls[j].store_queried

(***************************************************************************)
(* DMPRuleParser (rule_parser.py): the concept references and the          *)
(* execution method are read out of the rule's expression text.            *)
(***************************************************************************)
Char(s, i) == SubSeq(s, i, i)

Letters == {Char(LowerAlphabet, i) : i \in 1..Len(LowerAlphabet)}
               \cup {Char(UpperAlphabet, i) : i \in 1..Len(UpperAlphabet)}

\* [a-zA-Z_]
IsIdentStart(c) == c \in Letters \cup {"_"}

\* [a-zA-Z0-9_]
IsWordChar(c) == c \in Letters \cup Digits \cup {"_"}

\* last position of the run of word characters that covers position i
RunEnd(s, i) == Max({j \in i..Len(s) : \A k \in i..j : IsWordChar(Char(s, k))})

\* re.findall(r'([a-zA-Z_][a-zA-Z0-9_]*:[a-zA-Z_][a-zA-Z0-9_]*)', s) from position p
RECURSIVE QualifiedNamesFrom(_, _)
QualifiedNamesFrom(s, p) ==
    IF p > Len(s) THEN <<>>
    ELSE IF /\ IsIdentStart(Char(s, p))
            /\ RunEnd(s, p) + 2 <= Len(s)
            /\ Char(s, RunEnd(s, p) + 1) = ":"
            /\ IsIdentStart(Char(s, RunEnd(s, p) + 2))
    THEN LET e == RunEnd(s, RunEnd(s, p) + 2)
         IN  <<SubSeq(s, p, e)>> \o QualifiedNamesFrom(s, e + 1)
    ELSE QualifiedNamesFrom(s, p + 1)

\* re.findall(r'\b([a-zA-Z_][a-zA-Z0-9_]{3,})\b', s) from position p, where p
\* starts a run of word characters or is no word character
RECURSIVE ConceptCodesFrom(_, _)
ConceptCodesFrom(s, p) ==
    IF p > Len(s) THEN <<>>
    ELSE IF ~IsWordChar(Char(s, p)) THEN ConceptCodesFrom(s, p + 1)
    ELSE LET e == RunEnd(s, p)
         IN  (IF IsIdentStart(Char(s, p)) /\ e - p + 1 >= 4
              THEN <<SubSeq(s, p, e)>> ELSE <<>>)
             \o ConceptCodesFrom(s, e + 1)

\* re.findall(r'{([^}]+)}', s) and re.findall(r'\[([^\]]+)\]', s) from position p
RECURSIVE EnclosedFrom(_, _, _, _)
EnclosedFrom(s, p, open, close) ==
    IF p > Len(s) THEN <<>>
    ELSE LET closers == {q \in (p + 1)..Len(s) : Char(s, q) = close}
         IN  IF Char(s, p) = open /\ closers # {} /\ Min(closers) > p + 1
             THEN <<SubSeq(s, p + 1, Min(closers) - 1)>>
                      \o EnclosedFrom(s, Min(closers) + 1, open, close)
             ELSE EnclosedFrom(s, p + 1, open, close)

SeqToSet(seq) == {seq[i] : i \in 1..Len(seq)}

skip_words == {"and", "or", "not", "if", "then", "else", "sum", "exists", "null", "true", "false"}

\* the set of the list _extract_concept_references returns
_extract_concept_references(expression) ==
    LET concepts == SeqToSet(QualifiedNamesFrom(expression, 1))
                        \cup SeqToSet(ConceptCodesFrom(expression, 1))
                        \cup SeqToSet(EnclosedFrom(expression, 1, "{", "}"))
                        \cup SeqToSet(EnclosedFrom(expression, 1, "[", "]"))
    IN  {c \in concepts : Len(c) >= 3 /\ Lower(c) \notin skip_words /\ ~AllDigits(c)}

ComparisonOperators == {"=", ">", "<"}

HasComparison(expression) == \E op \in ComparisonOperators : Contains(expression, op)

_parse_rule_expression(expression) ==
    [original |-> expression,
     type |-> IF Contains(Lower(expression), "sum(") THEN "calculation"
              ELSE IF Contains(Lower(expression), "exists(") THEN "existence"
              ELSE IF HasComparison(expression) THEN "comparison"
              ELSE IF Contains(Lower(expression), "if") \/ Contains(Lower(expression), "when")
              THEN "conditional"
              ELSE "unknown",
     concepts |-> _extract_concept_references(expression)]

_determine_execution_method(rule_type, expression) ==
    IF Contains(rule_type, "calculation") \/ Contains(Lower(expression), "sum(")
    THEN "calculation_check"
    ELSE IF Contains(rule_type, "existence") \/ Contains(Lower(expression), "exists(")
    THEN "existence_check"
    ELSE IF Contains(rule_type, "consistency") \/ HasComparison(expression)
    THEN "consistency_check"
    ELSE IF Contains(rule_type, "conditional") \/ Contains(Lower(expression), "if")
    THEN "conditional_check"
    ELSE "general_validation"

\* rule.get('parsed_expression', {}) of a rule whose expression is empty
NoParsedExpression == [original |-> "", type |-> "unknown", concepts |-> {}]

process_rule(rule_dict) ==
    [RuleCode |-> rule_dict.RuleCode,
     RuleLabel |-> rule_dict.RuleLabel,
     RuleType |-> rule_dict.RuleType,
     Expression |-> rule_dict.Expression,
     parsed_expression |-> IF rule_dict.Expression # ""
                           THEN _parse_rule_expression(rule_dict.Expression)
                           ELSE NoParsedExpression,
     execution_method |-> _determine_execution_method(Lower(rule_dict.RuleType),
                                                      rule_dict.Expression),
     ErrorSeverity |-> IF rule_dict.ErrorSeverity \in {"", NoneVal}
                       THEN "ERROR" ELSE rule_dict.ErrorSeverity]

(***************************************************************************)
(* DMPRuleEvaluator (rule_evaluator.py) and DMPRuleEngine (rule_engine.py) *)
(***************************************************************************)
\* facts.keys()
FactKeys(fs) == {fs[i].name : i \in 1..Len(fs)}

\* the test of the existence check on one fact name:
\* (concept in fact_name or concept == local name) if ':' in fact_name
\* else concept == fact_name
ConceptMatchesFact(concept, fact_name) ==
    IF Colons(fact_name) # {}
    THEN Contains(fact_name, concept) \/ concept = AfterLastColon(fact_name)
    ELSE concept = fact_name

\* ', '.join(list) of a list holding the elements of S; the list has the
\* iteration order of a Python set, here the order CHOOSE fixes
RECURSIVE JoinSet(_)
JoinSet(S) ==
    IF S = {} THEN ""
    ELSE LET c == CHOOSE x \in S : TRUE
         IN  IF S = {c} THEN c ELSE c \o ", " \o JoinSet(S \ {c})

_evaluate_existence_rule(rule, fs) ==
    LET required_concepts == rule.parsed_expression.concepts
        missing_concepts == {c \in required_concepts :
                                ~\E n \in FactKeys(fs) : ConceptMatchesFact(c, n)}
    IN  IF missing_concepts # {}
        THEN [status |-> "failed",
              message |-> "Missing required concepts: " \o JoinSet(missing_concepts),
              missing_concepts |-> missing_concepts]
        ELSE [status |-> "passed", message |-> "All required concepts found",
              missing_concepts |-> {}]

NotImplementedResult(kind) ==
    [status |-> "skipped",
     message |-> kind \o " rule evaluation not yet implemented",
     missing_concepts |-> {}]

_evaluate_general_rule ==
    [status |-> "passed", message |-> "General rule passed (placeholder)",
     missing_concepts |-> {}]

\* an evaluate_rule that swallows the exception and leaves the default result
evaluate_rule_swallowing(rule, fs, raises) ==
    [rule_code |-> rule.RuleCode, rule_label |-> rule.RuleLabel, rule_type |-> rule.RuleType,
     status |-> "skipped", message |-> "", missing_concepts |-> {}]

\* evaluate_rule; raises tells whether the dispatched evaluation raises
evaluate_rule(rule, fs, raises) ==
    LET outcome ==
            IF raises
            THEN [status |-> "error", message |-> "Rule evaluation failed: exception",
                  missing_concepts |-> {}]
            ELSE IF rule.execution_method = "existence_check"
            THEN _evaluate_existence_rule(rule, fs)
            ELSE IF rule.execution_method = "calculation_check"
            THEN NotImplementedResult("Calculation")
            ELSE IF rule.execution_method = "consistency_check"
            THEN NotImplementedResult("Consistency")
            ELSE IF rule.execution_method = "conditional_check"
            THEN NotImplementedResult("Conditional")
            ELSE _evaluate_general_rule
    IN  [rule_code |-> rule.RuleCode, rule_label |-> rule.RuleLabel,
         rule_type |-> rule.RuleType, status |-> outcome.status,
         message |-> outcome.message, missing_concepts |-> outcome.missing_concepts]

\* concept codes of the resolved facts
ResolvedConceptCodes(resolutions) ==
    {resolutions.resolution_details[i].concept_code :
        i \in {j \in 1..Len(resolutions.resolution_details) :
                  /\ resolutions.resolution_details[j].resolved
                  /\ resolutions.resolution_details[j].concept_code \notin {NoneVal, ""}}}

\* fact names and their local names
FactNamesWithLocal(fs) ==
    FactKeys(fs) \cup {AfterLastColon(n) : n \in {m \in FactKeys(fs) : Colons(m) # {}}}

\* an applicability test that looks at the fact names only
_is_rule_applicable_by_name(rule, resolved_concepts, fact_names) ==
    LET rule_concepts == rule.parsed_expression.concepts
    IN  IF rule_concepts = {} THEN TRUE
        ELSE \E rule_concept \in rule_concepts :
                \E fact_name \in fact_names : Contains(fact_name, rule_concept)

_is_rule_applicable(rule, resolved_concepts, fact_names) ==
    LET rule_concepts == rule.parsed_expression.concepts
    IN  IF rule_concepts = {} THEN TRUE
        ELSE \E rule_concept \in rule_concepts :
                \/ rule_concept \in resolved_concepts
                \/ rule_concept \in fact_names
                \/ \E fact_name \in fact_names : Contains(fact_name, rule_concept)

\* the applicable rules, in the order of rules_cache
_find_applicable_rules(rules, fs, resolutions) ==
    SelectSeq(rules, LAMBDA rule :
        _is_rule_applicable(rule, ResolvedConceptCodes(resolutions), FactNamesWithLocal(fs)))

CountRuleStatus(rule_results, statuses) ==
    Len(SelectSeq(rule_results, LAMBDA r : r.status \in statuses))

validate_facts_against_rules(rules, fs, resolutions, raise_in) ==
    LET applicable_rules == _find_applicable_rules(rules, fs, resolutions)
        rule_results == [i \in 1..Len(applicable_rules) |->
                            evaluate_rule(applicable_rules[i], fs,
                                          applicable_rules[i].RuleCode \in raise_in)]
    IN  [method |-> "dmp_rule_validation",
         status |-> "completed",
         total_rules_evaluated |-> Len(rule_results),
         rules_passed |-> CountRuleStatus(rule_results, {"passed"}),
         rules_failed |-> CountRuleStatus(rule_results, {"failed"}),
         rules_skipped |-> CountRuleStatus(rule_results, {"skipped", "error"}),
         rule_results |-> rule_results,
         critical_failures |-> SelectSeq(rule_results, LAMBDA r : r.status = "failed")]

\* _initialize_rules: the loaded rows are processed in the order they were loaded
_initialize_rules(raw_rules) == [i \in 1..Len(raw_rules) |-> process_rule(raw_rules[i])]

RawRule(code, type, expression) ==
    [RuleCode |-> code, RuleLabel |-> "Label " \o code, RuleType |-> type,
     Expression |-> expression, ErrorSeverity |-> NoneVal]

RuleSetRow(id) == [ValidationRuleId |-> id, Severity |-> NoneVal]

\* the order of the characters of a rule code
CodeAlphabet == "0123456789ABCDEFGHIJKLMNOPQRSTUVWXYZ_abcdefghijklmnopqrstuvwxyz"

CharRank(c) == CHOOSE i \in 1..Len(CodeAlphabet) : Char(CodeAlphabet, i) = c

\* a < b for two rule codes
CodeLess(a, b) ==
    \E k \in 1..(Len(a) + 1) :
       /\ k <= Len(b)
       /\ SubSeq(a, 1, k - 1) = SubSeq(b, 1, k - 1)
       /\ k > Len(a) \/ CharRank(Char(a, k)) < CharRank(Char(b, k))

\* ORDER BY RuleCode over rows of distinct codes
OrderByRuleCode(rows) ==
    [p \in 1..Len(rows) |->
        rows[CHOOSE i \in 1..Len(rows) :
                Cardinality({j \in 1..Len(rows) :
                                CodeLess(rows[j].RuleCode, rows[i].RuleCode)}) = p - 1]]

\* DMPRuleLoader._detect_database_version: the rule table of a store that has
\* no ValidationRuleSet carries the ErrorSeverity and ErrorMessage columns
RuleLoaderVersion(store) ==
    IF "ValidationRuleSet" \in store.tables THEN "dmp_3_3"
    ELSE IF TableMapped(store, "tValidationRule") THEN "dmp_4_0"
    ELSE "dmp_3_3"

\* the rule a row of ValidationRuleSet is mapped to
RuleOfRuleSetRow(row) ==
    [RawRule("Rule_" \o row.ValidationRuleId, "ValidationSet",
             "Rule_" \o row.ValidationRuleId)
        EXCEPT !.RuleLabel = "ValidationRule_" \o row.ValidationRuleId,
               !.ErrorSeverity = IF row.Severity \in {NoneVal, ""} THEN "ERROR"
                                 ELSE row.Severity]

\* a loader that reads the rule rows without looking for the table or at the
\* outcome of the query
load_rules_unguarded(db) ==
    LET store == ActiveStore(db)
    IN  IF store.ValidationRuleSet # <<>>
        THEN [i \in 1..Len(store.ValidationRuleSet) |->
                 RuleOfRuleSetRow(store.ValidationRuleSet[i])]
        ELSE OrderByRuleCode(store.validation_rules)

\* DMPRuleLoader.load_validation_rules on the active database: the rules in
\* the order of the rules_cache dictionary; empty for every failure
load_validation_rules(db) ==
    LET store == ActiveStore(db)
    IN  IF ~store.available THEN <<>>
        ELSE IF RuleLoaderVersion(store) = "dmp_3_3"
        THEN IF "ValidationRuleSet" \in store.tables /\ ~store.rule_query_fails
             THEN [i \in 1..Len(store.ValidationRuleSet) |->
                      RuleOfRuleSetRow(store.ValidationRuleSet[i])]
             ELSE <<>>
        ELSE IF ~TableMapped(store, "tValidationRule") \/ store.rule_query_fails THEN <<>>
        ELSE OrderByRuleCode(SelectSeq(store.validation_rules,
                                       LAMBDA r : r.RuleCode \notin {NoneVal, ""}))

TestRawRules ==
    {RawRule("v0100", "Existence", "exists(Equity)"),
     RawRule("v0200", "Existence", "exists(Assets) and exists(Equity)"),
     RawRule("v0300", "Calculation", "sum(Assets) = Total"),
     RawRule("v0400", "Consistency", "Assets > 0"),
     RawRule("v0500", "Conditional", "if Assets then Liabilities"),
     RawRule("v0600", "General", ""),
     RawRule("v0800", "General", "when Assets then Liabilities"),
     RawRule("v0900", "Consistency", "exists(Assets)"),
     RawRule("v1000", "Calculation", "exists(Assets)"),
     RawRule("Rule_17", "ValidationSet", "Rule_17")}

\* sequences of up to MaxRules distinct elements of a set
DistinctSeqs(S) ==
    UNION {{r \in [1..n -> S] : \A i, j \in 1..n : i # j => r[i] # r[j]} : n \in 0..MaxRules}

\* the dictionaries the rules are loaded from: a 4.0 dictionary whose rule
\* table holds distinct rules in any physical order, and a 3.3 dictionary
\* whose ValidationRuleSet holds rows in any physical order
TestRuleDbs ==
    {[db_path |-> "dmp_4_0_path", dmp_3_3 |-> EmptyStore,
      dmp_4_0 |-> [EmptyStore EXCEPT !.tables = {"tConcept", "tValidationRule"},
                                     !.validation_rules = rows]] :
        rows \in DistinctSeqs(TestRawRules)}
    \cup
    {[db_path |-> "dmp_3_3_path",
      dmp_3_3 |-> [EmptyStore EXCEPT !.tables = {"DimensionalItem", "ValidationRuleSet"},
                                     !.ValidationRuleSet = rows],
      dmp_4_0 |-> EmptyStore] :
        rows \in DistinctSeqs({RuleSetRow("5"), RuleSetRow("9")})}

\* what the rule loader hands over
TestRuleLoads == {load_validation_rules(db) : db \in TestRuleDbs}

TestRuleFact(name) ==
    [name |-> name, is_list |-> FALSE,
     items |-> <<[value |-> "1000000", context |-> NoneVal, unit |-> NoneVal]>>]

TestRuleFacts ==
    {<<TestRuleFact("ns1:Assets"), TestRuleFact("ns1:Liabilities")>>,
     <<TestRuleFact("ns1:Assets"), TestRuleFact("ns1:Equity")>>,
     <<TestRuleFact("Equity")>>,
     <<TestRuleFact("TotalEquity")>>,
     <<TestRuleFact("ns1:Rule_9"), TestRuleFact("ns1:Rule_5")>>,
     <<>>}

\* the resolution detail of one fact: unresolved, or resolved to a concept
\* code that is its local name or the code "Equity"
TestRuleDetails(name) ==
    {[fact_name |-> name, resolved |-> FALSE, concept_code |-> NoneVal,
      concept_type |-> NoneVal, source_table |-> NoneVal]}
    \cup {[fact_name |-> name, resolved |-> TRUE, concept_code |-> c,
           concept_type |-> "Monetary", source_table |-> "tConcept"] :
             c \in {AfterLastColon(name), "Equity"}}

TestRuleResolutions(fs) ==
    {[timestamp |-> "2024-01-01", resolution_details |-> d] :
        d \in {r \in [1..Len(fs) -> UNION {TestRuleDetails(fs[i].name) : i \in 1..Len(fs)}] :
                  \A i \in 1..Len(fs) : r[i].fact_name = fs[i].name}}

InitRules ==
    /\ IdleArelle
    /\ pc = "rules_ready"
    /\ \E raw_rules \in TestRuleLoads : rules_cache = _initialize_rules(raw_rules)
    /\ facts \in TestRuleFacts
    /\ concept_resolutions \in TestRuleResolutions(facts)
    /\ raising = {}
    /\ rule_validation = [status |-> "not_run"]
    /\ IdleValidator
    /\ IdleResolver
    /\ IdleHybrid
    /\ IdleInstance

\* rule_engine.validate_facts_against_rules(facts, concept_resolutions); the
\* evaluation of at most one of the rules raises an exception
ValidateFactsAgainstRules ==
    /\ pc = "rules_ready"
    /\ \E raise_in \in {{}} \cup {{rules_cache[i].RuleCode} : i \in 1..Len(rules_cache)} :
          /\ raising' = raise_in
          /\ rule_validation' = validate_facts_against_rules(rules_cache, facts,
                                                             concept_resolutions, raise_in)
    /\ pc' = "rules_done"
    /\ UNCHANGED <<arelle_runner, facts, concept_resolutions, validation_result, resolverVars, rules_cache,
                   hybridVars, instanceVars>>

NextRules == ValidateFactsAgainstRules

SpecRules == InitRules /\ [][NextRules]_vars

\* the results the run recorded for one rule
ResultsOfRule(rule_code) ==
    SelectSeq(rule_validation.rule_results, LAMBDA r : r.rule_code = rule_code)

\* an existence rule none of whose referenced concepts is present among the facts
NoConceptPresent(rule) ==
    /\ rule.execution_method = "existence_check"
    /\ rule.parsed_expression.concepts # {}
    /\ \A c \in rule.parsed_expression.concepts :
          ~\E n \in FactKeys(facts) : ConceptMatchesFact(c, n)

\* C9: an existence rule none of whose referenced concepts is present among
\* the facts gets a RuleResult with status failed whose message lists every
\* missing concept; the rule is not dropped before evaluation.
C9_MissingConceptRuleFails ==
    pc = "rules_done" =>
        \A i \in 1..Len(rules_cache) :
            (NoConceptPresent(rules_cache[i]) /\ rules_cache[i].RuleCode \notin raising)
                => /\ Len(ResultsOfRule(rules_cache[i].RuleCode)) = 1
                   /\ ResultsOfRule(rules_cache[i].RuleCode)[1].status = "failed"
                   /\ \A c \in rules_cache[i].parsed_expression.concepts :
                         Contains(ResultsOfRule(rules_cache[i].RuleCode)[1].message, c)

RuleStatuses == {"passed", "failed", "skipped", "error"}

\* C10: every evaluated rule ends in one status of passed, failed, skipped,
\* error; a rule whose evaluation raises gets status error, the run itself
\* completes, and the results of the other rules are those of a run in which
\* the raising rule is not present.
C10_RuleErrorIsolated ==
    pc = "rules_done" =>
        /\ rule_validation.status = "completed"
        /\ \A i \in 1..Len(rule_validation.rule_results) :
              /\ rule_validation.rule_results[i].status \in RuleStatuses
              /\ rule_validation.rule_results[i].status = "error"
                    <=> rule_validation.rule_results[i].rule_code \in raising
        /\ SelectSeq(rule_validation.rule_results, LAMBDA r : r.rule_code \notin raising)
              = validate_facts_against_rules(
                    SelectSeq(rules_cache, LAMBDA rule : rule.RuleCode \notin raising),
                    facts, concept_resolutions, {}).rule_results

\* the evaluation of one rule raised, and another rule of the run still failed
\* on its own account
C10_Witness ==
    /\ pc = "rules_done"
    /\ \E i, j \in 1..Len(rule_validation.rule_results) :
          /\ rule_validation.rule_results[i].rule_code \in raising
          /\ rule_validation.rule_results[i].status = "error"
          /\ rule_validation.rule_results[j].status = "failed"

\* the signals by which a rule is recognised as calculation, consistency or
\* conditional: its declared type, or the literal tokens of its expression
HasUnimplementedSignal(rule) ==
    \/ \E kind \in {"calculation", "consistency", "conditional"} :
          Contains(Lower(rule.RuleType), kind)
    \/ Contains(Lower(rule.Expression), "sum(")
    \/ HasComparison(rule.Expression)
    \/ Contains(Lower(rule.Expression), "if")
    \/ Contains(Lower(rule.Expression), "when")

\* C11: a rule recognised as calculation, consistency or conditional (by its
\* declared type or by the tokens sum(, a comparison operator, if or when in
\* its expression) never receives status passed: it receives skipped with a
\* not-yet-implemented message
C11_UnimplementedNeverPassed ==
    pc = "rules_done" =>
        \A i \in 1..Len(rules_cache) :
            (HasUnimplementedSignal(rules_cache[i]) /\ rules_cache[i].RuleCode \notin raising)
                => \A k \in 1..Len(ResultsOfRule(rules_cache[i].RuleCode)) :
                      /\ ResultsOfRule(rules_cache[i].RuleCode)[k].status = "skipped"
                      /\ Contains(ResultsOfRule(rules_cache[i].RuleCode)[k].message,
                                  "not yet implemented")

(***************************************************************************)
(* XBRLFactParser (fact_parser.py): the business flag the parser gives a   *)
(* fact, and the shape of the facts dictionary it returns.                  *)
(***************************************************************************)
ContainsAny(s, subs) == \E sub \in subs : Contains(s, sub)

StartsWithAny(s, prefixes) ==
    \E x \in prefixes : Len(s) >= Len(x) /\ SubSeq(s, 1, Len(x)) = x

IsAlpha(s) == Len(s) > 0 /\ \A i \in 1..Len(s) : Char(s, i) \in Letters

StructuralPrefixes == {"xbrl", "xml", "xsi", "link", "xlink"}

_is_business_concept(prefix, local_name) ==
    LET business_prefixes == {"eba_met", "eba_dim", "find", "finrep", "corep", "met",
                              "dim", "xbrl", "gb"}
        business_patterns == {"md", "mi", "c_", "r_", "dp_", "qcef", "qaof", "qfaf",
                              "lcr", "nsfr"}
    IN  \/ ContainsAny(Lower(prefix), business_prefixes)
        \/ ContainsAny(Lower(local_name), business_patterns)
        \/ /\ Len(local_name) > 2
           /\ \/ /\ IsAlpha(SubSeq(local_name, 1, 2))
                 /\ \E i \in 1..Len(local_name) : Char(local_name, i) \in Digits
              \/ StartsWithAny(local_name, {"m", "c", "r", "q"}) /\ Len(local_name) > 3
              \/ Contains(local_name, "_") /\ Len(local_name) > 4
        \/ Lower(prefix) \notin StructuralPrefixes

\* the fact_data dictionary of one element; the keys 'context' and 'unit' are
\* never set by the parser, so a .get() of them gives None
ParsedFactData(prefix, local_name, value) ==
    [value |-> value, context_ref |-> "c1", unit_ref |-> "EUR",
     context |-> NoneVal, unit |-> NoneVal,
     prefix |-> prefix, local_name |-> local_name,
     is_business_concept |-> _is_business_concept(prefix, local_name)]

\* the entry of facts for n elements of the same name: a dictionary for one
\* element, a list of dictionaries for more
ParsedFact(prefix, local_name, n) ==
    [name |-> prefix \o ":" \o local_name,
     is_list |-> n > 1,
     items |-> [k \in 1..n |-> ParsedFactData(prefix, local_name, "100")]]

(***************************************************************************)
(* HybridValidationEngine (hybrid_validation_engine.py)                    *)
(***************************************************************************)
RECURSIVE IntToStr(_)
IntToStr(n) ==
    IF n < 10 THEN Char("0123456789", n + 1)
    ELSE IntToStr(n \div 10) \o Char("0123456789", (n % 10) + 1)

DigitValue(c) == CHOOSE d \in 0..9 : Char("0123456789", d + 1) = c

RECURSIVE StrToInt(_)
StrToInt(s) ==
    IF s = "" THEN 0
    ELSE StrToInt(SubSeq(s, 1, Len(s) - 1)) * 10 + DigitValue(Char(s, Len(s)))

\* (resolved / business) * 100 rounded to one decimal place, in tenths of a
\* percent, as the format specification .1f rounds it; a rate exactly half way
\* between two tenths needs more than MaxHybridFacts + 1 business facts
RateTenths(resolved, business) ==
    LET q == (resolved * 1000) \div business
        twice_rest == 2 * ((resolved * 1000) % business)
    IN  IF twice_rest > business \/ (twice_rest = business /\ q % 2 = 1) THEN q + 1 ELSE q

\* f"{resolution_rate:.1f}%" for a rate of t tenths of a percent
FormatTenths(t) == IntToStr(t \div 10) \o "." \o IntToStr(t % 10) \o "%"

\* a rate cut off after the first decimal place instead of rounded
FormatRateTruncated(resolved, business) == FormatTenths((resolved * 1000) \div business)

FormatRate(resolved, business) == FormatTenths(RateTenths(resolved, business))

\* float(rate_text.replace('%', '')), in tenths of a percent, for a text with
\* at most one decimal place
RECURSIVE RemovePercent(_)
RemovePercent(s) ==
    IF s = "" THEN ""
    ELSE (IF Char(s, 1) = "%" THEN "" ELSE Char(s, 1)) \o RemovePercent(SubSeq(s, 2, Len(s)))

ParseRate(rate_text) ==
    LET t == RemovePercent(rate_text)
        dots == {i \in 1..Len(t) : Char(t, i) = "."}
    IN  IF dots = {} THEN StrToInt(t) * 10
        ELSE StrToInt(SubSeq(t, 1, Min(dots) - 1)) * 10
                 + StrToInt(SubSeq(t, Min(dots) + 1, Len(t)))

structural_elements ==
    {"facts", "contexts", "units", "namespaces", "parsing_statistics", "file_path"}

\* the business test of the resolution stage on one entry of facts
IsBusinessFact(entry) ==
    LET fact_instance == entry.items[1]
        prefix == fact_instance.prefix
    IN  \/ fact_instance.is_business_concept
        \/ ContainsAny(Lower(prefix), {"eba_", "find", "finrep", "corep", "met", "dim", "gb"})
        \/ Lower(prefix) \notin StructuralPrefixes /\ Colons(entry.name) # {}

\* the entries of facts the resolution stage resolves
ResolvableFact(entry) ==
    /\ entry.name \notin structural_elements
    /\ IsBusinessFact(entry)
    /\ Colons(entry.name) # {}

ResolutionDetail(fact_name, resolution) ==
    [fact_name |-> fact_name,
     resolved |-> resolution.found,
     source_table |-> resolution.source,
     concept_code |-> resolution.ConceptCode,
     concept_type |-> resolution.ConceptType]

\* the loop of _resolve_concepts_in_dmp over the entries of facts, in order:
\* the details appended and the resolver's cache after the loop;
\* cache_before[k] is the cache when the loop reaches entry k
ResolveLoop(fs, db, cache) ==
    LET cache_before[k \in 1..(Len(fs) + 1)] ==
            IF k = 1 THEN cache
            ELSE IF ResolvableFact(fs[k - 1])
                 THEN resolve_concept_from_dmp(db, cache_before[k - 1], fs[k - 1].name).cache
                 ELSE cache_before[k - 1]
        resolved_at == SelectSeq([k \in 1..Len(fs) |-> k], LAMBDA k : ResolvableFact(fs[k]))
    IN  [details |-> [n \in 1..Len(resolved_at) |->
                         ResolutionDetail(
                             fs[resolved_at[n]].name,
                             resolve_concept_from_dmp(db, cache_before[resolved_at[n]],
                                                      fs[resolved_at[n]].name).result)],
         cache |-> cache_before[Len(fs) + 1]]

\* the result dictionary of the resolution stage whose loop appended details
ResolutionResults(fs, details) ==
    LET business_facts == Len(details)
        resolved_facts == Len(SelectSeq(details, LAMBDA d : d.resolved))
    IN  [status |-> "completed", total_facts |-> Len(fs),
         business_facts |-> business_facts,
         resolved_facts |-> resolved_facts,
         unresolved_facts |-> business_facts - resolved_facts,
         resolution_details |-> details,
         resolution_rate |-> IF business_facts > 0
                             THEN FormatRate(resolved_facts, business_facts) ELSE "0%",
         timestamp |-> "2024-01-01"]

\* a resolution stage that records only the facts it could resolve
_resolve_concepts_dropping_misses(fs, db, cache) ==
    CHOOSE results \in {[ResolutionResults(fs, details) EXCEPT
                            !.resolution_details = SelectSeq(details, LAMBDA d : d.resolved)] :
                           details \in {ResolveLoop(fs, db, cache).details}} : TRUE

\* _resolve_concepts_in_dmp: the stage's result dictionary
_resolve_concepts_in_dmp(fs, db, cache) ==
    CHOOSE results \in {ResolutionResults(fs, details) :
                           details \in {ResolveLoop(fs, db, cache).details}} : TRUE

\* the issue _synthesize_results makes of one message of the external validator
ArelleIssue(info, type, severity) ==
    [type |-> type, severity |-> severity, message |-> info.message,
     category |-> info.category, source |-> "arelle_validation",
     fact_name |-> IF info.fact_name = NoneVal THEN "unknown" ELSE info.fact_name]

\* a status rule that lets the resolution rate decide before the warnings
OverallStatusRateFirst(total_errors, total_warnings, resolution_rate) ==
    IF total_errors > 0 THEN "VALIDATION_FAILED"
    ELSE IF resolution_rate >= 900 THEN "EXCELLENT"
    ELSE IF total_warnings > 0 THEN "VALIDATION_WARNINGS"
    ELSE IF resolution_rate >= 750 THEN "VERY_GOOD"
    ELSE IF resolution_rate >= 600 THEN "GOOD"
    ELSE IF resolution_rate >= 400 THEN "PARTIAL"
    ELSE "POOR"

\* the overall status; resolution_rate is in tenths of a percent
OverallStatus(total_errors, total_warnings, resolution_rate) ==
    IF total_errors > 0 THEN "VALIDATION_FAILED"
    ELSE IF total_warnings > 0 THEN "VALIDATION_WARNINGS"
    ELSE IF resolution_rate >= 900 THEN "EXCELLENT"
    ELSE IF resolution_rate >= 750 THEN "VERY_GOOD"
    ELSE IF resolution_rate >= 600 THEN "GOOD"
    ELSE IF resolution_rate >= 400 THEN "PARTIAL"
    ELSE "POOR"

\* dictionary.get(key, default) for a dictionary modelled as a record
HasKey(dict, key) == key \in DOMAIN dict

_synthesize_results(stages) ==
    LET arelle_results == stages.arelle_validation
        arelle_completed == arelle_results.status = "completed"
        arelle_issues ==
            IF arelle_completed
            THEN [i \in 1..Len(arelle_results.errors) |->
                     ArelleIssue(arelle_results.errors[i], "business_rule_violation", "error")]
                 \o [i \in 1..Len(arelle_results.warnings) |->
                        ArelleIssue(arelle_results.warnings[i], "business_rule_warning", "warning")]
            ELSE <<>>
        dmp_validation == stages.dmp_validation
        dmp_results == IF HasKey(dmp_validation, "validation_results")
                       THEN dmp_validation.validation_results ELSE <<>>
        validation_results == arelle_issues \o dmp_results
        total_errors == Len(SelectIssues(validation_results, "error"))
        total_warnings == Len(SelectIssues(validation_results, "warning"))
        dmp_resolution == stages.dmp_concept_resolution
        rate_text == IF HasKey(dmp_resolution, "resolution_rate")
                     THEN dmp_resolution.resolution_rate ELSE "0%"
    IN  [validation_strategy |-> "hybrid",
         stage_summary |-> [n \in DOMAIN stages |-> stages[n].status],
         validation_results |-> validation_results,
         total_errors |-> total_errors,
         total_warnings |-> total_warnings,
         overall_status |-> OverallStatus(total_errors, total_warnings, ParseRate(rate_text)),
         concept_resolution_rate |-> rate_text]

\* ArelleRunner.validate_with_arelle: outcome is what the runner and the
\* external process do when they are reached
validate_with_arelle(taxonomy_path, outcome) ==
    IF outcome.status = "unavailable" THEN outcome
    ELSE IF taxonomy_path = NoneVal
    THEN [method |-> "arelle_fallback", status |-> "error", errors |-> <<>>,
          warnings |-> <<>>, error |-> "TypeError"]
    ELSE outcome

SkippedStage(reason) == [status |-> "skipped", reason |-> reason]

\* store stages that run whether or not the store is available
StoreStagesUnguarded(eng, dmp_resolution, rules, fs) ==
    [fact_parsing |-> [status |-> "completed", total_facts |-> Len(fs)],
     dmp_concept_resolution |-> dmp_resolution,
     dmp_rule_validation |-> validate_facts_against_rules(rules, fs, dmp_resolution, {}),
     dmp_validation |-> validate_facts(fs, dmp_resolution)]

\* the stages of validate_hybrid that work on the dictionary store, for an
\* engine whose components are set up; dmp_resolution is what
\* _resolve_concepts_in_dmp returned for the facts
StoreStages(eng, dmp_resolution, rules, fs) ==
    [fact_parsing |-> [status |-> "completed", total_facts |-> Len(fs)],
     dmp_concept_resolution |->
         IF eng.dmp_available THEN dmp_resolution ELSE SkippedStage("dmp_unavailable"),
     dmp_rule_validation |->
         IF ~eng.dmp_available THEN SkippedStage("dmp_unavailable")
         ELSE IF dmp_resolution.resolution_details # <<>>
         THEN validate_facts_against_rules(rules, fs, dmp_resolution, {})
         ELSE SkippedStage("no_resolved_concepts"),
     dmp_validation |->
         IF eng.dmp_available THEN validate_facts(fs, dmp_resolution)
         ELSE SkippedStage("dmp_unavailable")]

\* all stages of validate_hybrid: those of the store, the taxonomy processing
\* and the external validator
HybridStages(eng, store_stages, input) ==
    LET taxonomy_processing ==
            IF input.taxonomy_path # NoneVal /\ eng.has_taxonomy_processor
            THEN [status |-> "completed", extraction_dir |-> "extracted"]
            ELSE SkippedStage("no_taxonomy_or_processor")
        arelle_taxonomy_path ==
            IF HasKey(taxonomy_processing, "extraction_dir")
            THEN taxonomy_processing.extraction_dir ELSE input.taxonomy_path
    IN  [fact_parsing |-> store_stages.fact_parsing,
         dmp_concept_resolution |-> store_stages.dmp_concept_resolution,
         dmp_rule_validation |-> store_stages.dmp_rule_validation,
         dmp_validation |-> store_stages.dmp_validation,
         taxonomy_processing |-> taxonomy_processing,
         arelle_validation |->
             IF eng.arelle_available
             THEN validate_with_arelle(arelle_taxonomy_path, input.arelle)
             ELSE SkippedStage("arelle_unavailable")]

(***************************************************************************)
(* Inputs of SpecHybrid: an instance document, a taxonomy argument and the *)
(* behaviour of the external validator.                                    *)
(***************************************************************************)
\* the elements of the instance in document order: one that the 4.0
\* dictionary holds, one that no dictionary holds, a structural one, and a
\* dimension member reported twice
TestElements ==
    <<ParsedFact("find", "mi53", 1), ParsedFact("met", "zz", 1),
      ParsedFact("xsi", "nil", 1), ParsedFact("dim", "x1", 2)>>

RECURSIVE SubSeqs(_)
SubSeqs(seq) ==
    IF seq = <<>> THEN {<<>>}
    ELSE LET rest == SubSeqs(Tail(seq))
         IN  rest \cup {<<Head(seq)>> \o r : r \in rest}

\* what parse_xbrl_instance extracts: the elements the document holds
TestParsedFacts == {fs \in SubSeqs(TestElements) : Len(fs) <= MaxHybridFacts}

ArelleMessage(message, category, fact_name) ==
    [message |-> message, category |-> category, fact_name |-> fact_name]

ArelleOutcome(status, errors, warnings) ==
    [method |-> "arelle_fallback", status |-> status, errors |-> errors,
     warnings |-> warnings, error |-> IF status \in {"timeout", "error"} THEN status ELSE NoneVal]

TestArelleOutcomes ==
    {ArelleOutcome("completed", <<>>, <<>>),
     ArelleOutcome("completed", <<>>,
                   <<ArelleMessage("rounding difference", "calculation", NoneVal)>>),
     ArelleOutcome("timeout", <<>>, <<>>),
     ArelleOutcome("error", <<>>, <<>>),
     ArelleOutcome("unavailable", <<>>, <<>>)}
    \cup {ArelleOutcome("completed",
                        <<ArelleMessage("concept not found", "concept", fact_name)>>, <<>>) :
             fact_name \in {"find:mi53", "dim:x1", NoneVal}}

HybridStore40 ==
    [TestStore40(TRUE, {"tConcept", "tDataPoint", "tMember", "tValidationRule"}) EXCEPT
        !.validation_rules = <<RawRule("v0700", "Existence", "exists(mi53) and exists(Equity)"),
                               RawRule("v0100", "Existence", "exists(Equity)")>>]

HybridStore33 ==
    [TestStore33({"DimensionalItem", "PrimaryItem", "Item", "ValidationRuleSet"}) EXCEPT
        !.ValidationRuleSet = <<RuleSetRow("9"), RuleSetRow("5")>>]

\* the pairs of dictionaries of SpecHybrid: both complete; a 3.3 dictionary
\* without its rule table, with a failing rule query, and not available at
\* all; a 4.0 dictionary without its rule table
HybridStorePairs ==
    {<<HybridStore33, HybridStore40>>,
     <<[HybridStore33 EXCEPT !.tables = @ \ {"ValidationRuleSet"}], HybridStore40>>,
     <<[HybridStore33 EXCEPT !.rule_query_fails = TRUE], HybridStore40>>,
     <<[EmptyStore EXCEPT !.available = FALSE], HybridStore40>>,
     <<HybridStore33, [HybridStore40 EXCEPT !.tables = @ \ {"tValidationRule"}]>>}

\* the database an engine of the given architecture looks for
ConfiguredStore(db, architecture_version) ==
    IF architecture_version = "arch_1_0" THEN db.dmp_3_3 ELSE db.dmp_4_0

\* HybridValidationEngine.__init__(architecture_version)
NewEngine(db, architecture_version, arelle_available) ==
    [architecture_version |-> architecture_version,
     dmp_available |-> IF architecture_version = NoneVal THEN FALSE
                       ELSE ConfiguredStore(db, architecture_version).available,
     arelle_available |-> arelle_available,
     has_taxonomy_processor |-> FALSE]

InitHybrid ==
    /\ IdleArelle
    /\ pc = "hybrid_ready"
    /\ dmp_db \in {[db_path |-> "dmp_4_0_path", dmp_3_3 |-> pair[1], dmp_4_0 |-> pair[2]] :
                      pair \in HybridStorePairs}
    /\ \E architecture_version \in {NoneVal, "arch_1_0", "arch_2_0"}, arelle_available \in BOOLEAN :
          engine = NewEngine(dmp_db, architecture_version, arelle_available)
    /\ rules_cache = IF engine.dmp_available
                     THEN _initialize_rules(load_validation_rules(dmp_db)) ELSE <<>>
    /\ concept_cache = [n \in {} |-> NoConcept]
    /\ calls = <<>>
    /\ reinitialized = 0
    /\ facts = <<>>
    /\ concept_resolutions = [timestamp |-> NoneVal, resolution_details |-> <<>>]
    /\ run_input = NoneVal
    /\ hybrid_result = [status |-> "not_run"]
    /\ raising = {}
    /\ rule_validation = [status |-> "not_run"]
    /\ IdleValidator
    /\ IdleInstance

\* the engine after the architecture detection of validate_hybrid found
\* detected_architecture
DetectedEngine(eng, db, detected_architecture) ==
    LET available == ConfiguredStore(db, detected_architecture).available
    IN  [eng EXCEPT !.architecture_version = detected_architecture,
                    !.dmp_available = available,
                    !.has_taxonomy_processor = @ \/ available]

\* what parse_xbrl_instance returns to validate_hybrid: the facts of a
\* well-formed instance, or the error dictionary with no facts
TestParseResults ==
    {[error |-> NoneVal, facts |-> fs] : fs \in TestParsedFacts}
    \cup {[error |-> "XML parsing failed", facts |-> <<>>]}

\* hybrid_engine.validate_hybrid(xbrl_path, taxonomy_path, auto_detect_architecture):
\* detected_architecture is None when the detection does not run, and unknown
\* only for an instance that cannot be parsed; ARCHITECTURES['unknown'] raises
\* KeyError before the try block; an engine without a runner never reaches
\* the external validator
ValidateHybrid ==
    /\ pc = "hybrid_ready"
    /\ \E parsed \in TestParseResults :
       \E detected_architecture \in
              IF engine.architecture_version # NoneVal THEN {NoneVal}
              ELSE IF parsed.error = NoneVal THEN {NoneVal, "arch_1_0", "arch_2_0"}
              ELSE {NoneVal, "arch_1_0", "unknown"} :
          IF detected_architecture = "unknown"
          THEN /\ engine' = [engine EXCEPT !.architecture_version = "unknown"]
               /\ hybrid_result' = [raised |-> "KeyError"]
               /\ pc' = "hybrid_raised"
               /\ UNCHANGED <<dmp_db, reinitialized, rules_cache, facts, run_input,
                              concept_cache, parsed_data>>
          ELSE
          LET fs == parsed.facts
              detects == detected_architecture # NoneVal
              eng == IF detects THEN DetectedEngine(engine, dmp_db, detected_architecture)
                     ELSE engine
              reinit == detects /\ eng.dmp_available
              db == IF reinit THEN switch_database(dmp_db, detected_architecture) ELSE dmp_db
              rules == IF reinit THEN _initialize_rules(load_validation_rules(db))
                       ELSE rules_cache
          IN  \E dmp_resolution \in {_resolve_concepts_in_dmp(fs, db, concept_cache)} :
              \E store_stages \in {StoreStages(eng, dmp_resolution, rules, fs)} :
              \E cache \in {IF eng.dmp_available
                            THEN ResolveLoop(fs, db, concept_cache).cache
                            ELSE concept_cache} :
              \E taxonomy_path \in {NoneVal, "taxonomy.zip"},
                 arelle \in IF eng.arelle_available THEN TestArelleOutcomes
                            ELSE {ArelleOutcome("unavailable", <<>>, <<>>)} :
              \E input \in {[taxonomy_path |-> taxonomy_path, arelle |-> arelle]} :
              \E stages \in {HybridStages(eng, store_stages, input)} :
                 /\ engine' = eng
                 /\ dmp_db' = db
                 /\ reinitialized' = IF db.db_path # dmp_db.db_path
                                     THEN reinitialized + 1 ELSE reinitialized
                 /\ rules_cache' = rules
                 /\ facts' = fs
                 /\ parsed_data' = parsed
                 /\ run_input' = input
                 /\ concept_cache' = cache
                 /\ hybrid_result' =
                        [architecture_version |->
                             IF eng.architecture_version = NoneVal THEN "unknown"
                             ELSE eng.architecture_version,
                         stages |-> stages,
                         final_report |-> _synthesize_results(stages)]
                 /\ pc' = "hybrid_done"
    /\ UNCHANGED <<arelle_runner, concept_resolutions, validation_result, calls, raising, rule_validation,
                   xbrl_path, document, detected>>

NextHybrid == ValidateHybrid

SpecHybrid == InitHybrid /\ [][NextHybrid]_vars

\* the resolution details of the finished run; none when the stage was skipped
RunResolutionDetails ==
    IF HasKey(hybrid_result.stages.dmp_concept_resolution, "resolution_details")
    THEN hybrid_result.stages.dmp_concept_resolution.resolution_details
    ELSE <<>>

ResolvedInRun(fact_name) ==
    \E i \in 1..Len(RunResolutionDetails) :
       /\ RunResolutionDetails[i].fact_name = fact_name
       /\ RunResolutionDetails[i].resolved

\* the issues of the merged report
MergedIssues == hybrid_result.final_report.validation_results

\* C2: in the merged report, a concept the external validator reported as an
\* error and the concept resolver resolved has severity warning, never error,
\* whichever table resolved it
C2_ResolvedErrorDowngraded ==
    pc = "hybrid_done" =>
        \A i \in 1..Len(MergedIssues) :
           (/\ MergedIssues[i].source = "arelle_validation"
            /\ MergedIssues[i].type = "business_rule_violation"
            /\ ResolvedInRun(MergedIssues[i].fact_name))
           => MergedIssues[i].severity = "warning"

\* the error issues of the merged report whose category names a timeout
TimeoutIssues ==
    SelectSeq(MergedIssues,
              LAMBDA issue : issue.severity = "error" /\ Contains(Lower(issue.category), "timeout"))

\* C3: when the external validator times out, the final report holds exactly
\* one error issue whose category indicates the timeout
C3_TimeoutIsOneErrorIssue ==
    (pc = "hybrid_done" /\ hybrid_result.stages.arelle_validation.status = "timeout")
        => Len(TimeoutIssues) = 1

\* the names of the parsed facts that are namespace-qualified and flagged
\* business-relevant by the parser
FlaggedBusinessNames ==
    {facts[i].name : i \in {j \in 1..Len(facts) :
                               /\ Colons(facts[j].name) # {}
                               /\ facts[j].items[1].is_business_concept}}

\* C6: after the resolution stage every namespace-qualified fact flagged
\* business-relevant appears exactly once in resolution_details, no other name
\* appears there, and business_facts = resolved_facts + unresolved_facts = the
\* number of resolution_details entries
C6_BusinessFactsResolvedOnce ==
    (pc = "hybrid_done" /\ hybrid_result.stages.dmp_concept_resolution.status = "completed")
        => LET stage == hybrid_result.stages.dmp_concept_resolution
               details == stage.resolution_details
           IN  /\ \A name \in FlaggedBusinessNames :
                     Cardinality({i \in 1..Len(details) : details[i].fact_name = name}) = 1
               /\ \A i \in 1..Len(details) : details[i].fact_name \in FlaggedBusinessNames
               /\ stage.business_facts = stage.resolved_facts + stage.unresolved_facts
               /\ stage.business_facts = Len(details)

\* a run whose facts hold a resolved business fact, an unresolved business
\* fact and a fact that is not business-relevant
C6_Witness ==
    /\ pc = "hybrid_done"
    /\ hybrid_result.stages.dmp_concept_resolution.status = "completed"
    /\ \E i, j \in 1..Len(RunResolutionDetails) :
          RunResolutionDetails[i].resolved /\ ~RunResolutionDetails[j].resolved
    /\ \E k \in 1..Len(facts) : facts[k].name \notin FlaggedBusinessNames

\* the rule results of the finished run; none when the stage did not run
RunRuleResults ==
    IF HasKey(hybrid_result.stages.dmp_rule_validation, "rule_results")
    THEN hybrid_result.stages.dmp_rule_validation.rule_results
    ELSE <<>>

ResolutionRateBands == {"EXCELLENT", "VERY_GOOD", "GOOD", "PARTIAL", "POOR"}

\* C8: the overall status is a resolution-rate band only when no rule result
\* is failed and no business fact is unresolved
C8_BandOnlyWithoutFailures ==
    (pc = "hybrid_done" /\ hybrid_result.final_report.overall_status \in ResolutionRateBands)
        => /\ \A i \in 1..Len(RunRuleResults) : RunRuleResults[i].status # "failed"
           /\ \A i \in 1..Len(RunResolutionDetails) : RunResolutionDetails[i].resolved

(***************************************************************************)
(* SpecSynthesis: _synthesize_results applied to stage dictionaries whose  *)
(* resolution rates lie on and next to the band boundaries.                *)
(***************************************************************************)
\* resolution rates in tenths of a percent
TestRates == {0, 399, 400, 599, 600, 749, 750, 899, 900, 1000}

\* the resolution stage and the rate it reports, in tenths of a percent: the
\* stage skipped, completed without business facts, or completed with a rate
TestResolutionStages ==
    {[stage |-> SkippedStage("dmp_unavailable"), rate_tenths |-> 0],
     [stage |-> [status |-> "completed", resolution_rate |-> "0%"], rate_tenths |-> 0]}
    \cup {[stage |-> [status |-> "completed", resolution_rate |-> FormatTenths(t)],
           rate_tenths |-> t] : t \in TestRates}

TestDmpIssue(severity) ==
    [type |-> "data_quality", severity |-> severity, message |-> "value out of range",
     category |-> "dmp", source |-> "dmp_validation", fact_name |-> "find:mi53"]

TestDmpValidationStages ==
    {SkippedStage("dmp_unavailable"),
     [status |-> "completed", method |-> "pure_dmp_database"]}
    \cup {[status |-> "completed", method |-> "pure_dmp_database",
           validation_results |-> <<TestDmpIssue(severity)>>] :
             severity \in {"error", "warning"}}

TestArelleStages ==
    {SkippedStage("arelle_unavailable"),
     ArelleOutcome("timeout", <<>>, <<>>),
     ArelleOutcome("error", <<>>, <<>>)}
    \cup {ArelleOutcome("completed", errors, warnings) :
             errors \in {<<>>, <<ArelleMessage("concept not found", "concept", NoneVal)>>},
             warnings \in {<<>>, <<ArelleMessage("rounding difference", "calculation", NoneVal)>>}}

InitSynthesis ==
    /\ IdleArelle
    /\ pc = "synthesis_ready"
    /\ \E resolution \in TestResolutionStages,
          dmp_validation \in TestDmpValidationStages,
          arelle_validation \in TestArelleStages :
          run_input =
              [rate_tenths |-> resolution.rate_tenths,
               stages |->
                   [fact_parsing |-> [status |-> "completed", total_facts |-> 0],
                    dmp_concept_resolution |-> resolution.stage,
                    dmp_rule_validation |-> SkippedStage("no_resolved_concepts"),
                    dmp_validation |-> dmp_validation,
                    taxonomy_processing |-> SkippedStage("no_taxonomy_or_processor"),
                    arelle_validation |-> arelle_validation]]
    /\ hybrid_result = [status |-> "not_run"]
    /\ engine = NoneVal
    /\ facts = <<>>
    /\ concept_resolutions = [timestamp |-> NoneVal, resolution_details |-> <<>>]
    /\ IdleValidator
    /\ IdleResolver
    /\ IdleRules
    /\ IdleInstance

\* self._synthesize_results(validation_result['stages'])
Synthesize ==
    /\ pc = "synthesis_ready"
    /\ hybrid_result' = [architecture_version |-> "unknown",
                         stages |-> run_input.stages,
                         final_report |-> _synthesize_results(run_input.stages)]
    /\ pc' = "synthesis_done"
    /\ UNCHANGED <<arelle_runner, facts, concept_resolutions, validation_result, resolverVars, ruleVars,
                   engine, run_input, instanceVars>>

NextSynthesis == Synthesize

SpecSynthesis == InitSynthesis /\ [][NextSynthesis]_vars

\* C7: the overall status follows a strict precedence: errors give the failed
\* status; otherwise warnings give the warnings status; otherwise the
\* resolution rate r alone decides: r >= 90 EXCELLENT, 75 <= r < 90 VERY_GOOD,
\* 60 <= r < 75 GOOD, 40 <= r < 60 PARTIAL, r < 40 POOR
C7_StatusPrecedence ==
    pc = "synthesis_done" =>
        LET report == hybrid_result.final_report
            r == run_input.rate_tenths
            overall_status == report.overall_status
        IN  /\ report.total_errors > 0 => overall_status = "VALIDATION_FAILED"
            /\ (report.total_errors = 0 /\ report.total_warnings > 0)
                  => overall_status = "VALIDATION_WARNINGS"
            /\ (report.total_errors = 0 /\ report.total_warnings = 0)
                  => /\ r >= 900 => overall_status = "EXCELLENT"
                     /\ (750 <= r /\ r < 900) => overall_status = "VERY_GOOD"
                     /\ (600 <= r /\ r < 750) => overall_status = "GOOD"
                     /\ (400 <= r /\ r < 600) => overall_status = "PARTIAL"
                     /\ r < 400 => overall_status = "POOR"

\* a report with warnings and no errors whose rate alone would be EXCELLENT
C7_Witness ==
    /\ pc = "synthesis_done"
    /\ hybrid_result.final_report.total_errors = 0
    /\ hybrid_result.final_report.total_warnings > 0
    /\ run_input.rate_tenths >= 900
    /\ hybrid_result.final_report.overall_status = "VALIDATION_WARNINGS"

(***************************************************************************)
(* detect_architecture_version (hybrid_validation_engine.py)               *)
(***************************************************************************)
\* os.path.basename(path)
Basename(path) ==
    LET slashes == {i \in 1..Len(path) : SubSeq(path, i, i) = "/"}
    IN  IF slashes = {} THEN path ELSE SubSeq(path, Max(slashes) + 1, Len(path))

\* the value a raised exception stands for
Raised == "<raised>"

arch_1_0_filename_patterns ==
    {"finrep020400", "finrep9indgaap", "gb_finrep", "_2021-06-30_", "_2020",
     "fulltaxonomy3.0", "phase2", "dummylei", "_20201218", "finrep2.4"}

arch_1_0_patterns ==
    {"dpm/3.0", "eu/cr/3.0", "finrep/3.0", "corep/3.0", "finrep/2.4",
     "gb_finrep", "finrep020400", "finrep9indgaap", "phase2"}

arch_2_0_patterns ==
    {"dpm/4.0", "eu/cr/4.0", "finrep/4.0", "corep/4.0", "eba_", "find_",
     "errata5", "taxo_package_4.0"}

\* ARCHITECTURES[version]['namespaces']
ArchitectureNamespaces(version) ==
    IF version = "arch_1_0" THEN {"xbrl/crr/dict/dpm/3.0", "eba.europa.eu/eu/cr/3.0"}
    ELSE {"xbrl/dpm/4.0", "eba.europa.eu/eu/cr/4.0"}

\* the namespaces dictionary built from attribute dictionaries: ElementTree
\* consumes the namespace declarations of an element, so attrib holds its
\* ordinary attributes only
NamespacesOfAttribs(attribs) ==
    {[prefix |-> SubSeq(a.key, 7, Len(a.key)), uri |-> a.value] :
        a \in {b \in attribs : StartsWithAny(b.key, {"xmlns:"})}}
    \cup {[prefix |-> "default", uri |-> a.value] : a \in {b \in attribs : b.key = "xmlns"}}

\* the attributes of root.iter(): those of the root and of every element
IterAttribs(doc) ==
    doc.root_attrib \cup UNION {doc.elements[i].attrib : i \in 1..Len(doc.elements)}

ExtractedNamespaces(doc) ==
    IF NamespacesOfAttribs(doc.root_attrib) # {} THEN NamespacesOfAttribs(doc.root_attrib)
    ELSE NamespacesOfAttribs(IterAttribs(doc))

NamespaceMatches(uri, patterns, arch_namespaces) ==
    \/ \E pattern \in patterns : Contains(Lower(uri), pattern)
    \/ \E arch_ns \in arch_namespaces : Contains(uri, arch_ns)

\* a fallback that never looks at the filename
FallbackNewest(filename) == "arch_2_0"

\* the filename-based fallback of the detector
FilenameFallback(filename) ==
    IF \E pattern \in {"2021", "2020", "phase2", "fulltaxonomy3"} : Contains(filename, pattern)
    THEN "arch_1_0" ELSE "arch_2_0"

\* the body of the detector's try block; Raised when a statement raises
DetectionSteps(path, doc) ==
    IF path = NoneVal THEN Raised
    ELSE LET filename == Lower(Basename(path))
         IN  IF \E pattern \in arch_1_0_filename_patterns : Contains(filename, pattern)
             THEN "arch_1_0"
             ELSE IF ~doc.parses THEN Raised
             ELSE LET namespaces == ExtractedNamespaces(doc)
                  IN  IF \E ns \in namespaces :
                            NamespaceMatches(ns.uri, arch_1_0_patterns,
                                             ArchitectureNamespaces("arch_1_0"))
                      THEN "arch_1_0"
                      ELSE IF \E ns \in namespaces :
                                 NamespaceMatches(ns.uri, arch_2_0_patterns,
                                                  ArchitectureNamespaces("arch_2_0"))
                      THEN "arch_2_0"
                      ELSE IF \E ns \in namespaces :
                                 \/ StartsWithAny(ns.prefix, {"eba_"})
                                 \/ Contains(Lower(ns.prefix), "eba")
                      THEN "arch_2_0"
                      ELSE FilenameFallback(filename)

\* a detector without the exception handler
detect_without_handler(path, doc) == DetectionSteps(path, doc)

detect_architecture_version(path, doc) ==
    IF DetectionSteps(path, doc) = Raised THEN "unknown" ELSE DetectionSteps(path, doc)

(***************************************************************************)
(* Inputs of SpecDetector: instance files and the paths they are given by. *)
(***************************************************************************)
Declaration(prefix, uri) == [prefix |-> prefix, uri |-> uri]

\* the namespace declarations of the root element
TestDeclarations ==
    {{Declaration("xbrli", "http://www.xbrl.org/2003/instance")},
     {Declaration("xbrli", "http://www.xbrl.org/2003/instance"),
      Declaration("fin", "http://www.eba.europa.eu/eu/fr/xbrl/crr/fws/finrep/3.0/x")},
     {Declaration("find", "http://www.eba.europa.eu/xbrl/crr/dict/dpm/4.0/find")},
     {Declaration("eba_met", "http://www.eba.europa.eu/xbrl/crr/dict/met")}}

MetUri == "http://www.eba.europa.eu/xbrl/crr/dict/met"

\* a child of the root: its tag {namespace_uri}local_name, text and attributes
Element(namespace_uri, local_name, context_ref) ==
    [namespace_uri |-> namespace_uri, local_name |-> local_name, value |-> "100",
     attrib |-> {[key |-> "contextRef", value |-> context_ref]}]

\* a file that does not exist or is not well-formed XML
UnparseableDocument ==
    [parses |-> FALSE, declared |-> {}, root_attrib |-> {}, elements |-> <<>>]

TestDetectorDocuments ==
    {UnparseableDocument}
    \cup {[parses |-> TRUE, declared |-> declared, root_attrib |-> root_attrib,
           elements |-> elements] :
             declared \in TestDeclarations,
             root_attrib \in {{}, {[key |-> "id", value |-> "r1"]}},
             elements \in {<<>>, <<Element(MetUri, "mi53", "c1")>>}}

TestPaths ==
    {NoneVal, "", "rep.xbrl", "report2020.xbrl", "REP_2020.XBRL", "dir_2020/rep.xbrl",
     "phase2.xbrl"}

InitDetector ==
    /\ IdleArelle
    /\ pc = "detector_ready"
    /\ xbrl_path \in TestPaths
    /\ document \in TestDetectorDocuments
    /\ xbrl_path \in {NoneVal, ""} => document = UnparseableDocument
    /\ detected = NoneVal
    /\ parsed_data = [status |-> "not_run"]
    /\ facts = <<>>
    /\ concept_resolutions = [timestamp |-> NoneVal, resolution_details |-> <<>>]
    /\ IdleValidator
    /\ IdleResolver
    /\ IdleRules
    /\ IdleHybrid

\* detect_architecture_version(xbrl_path)
Detect ==
    /\ pc = "detector_ready"
    /\ detected' = detect_architecture_version(xbrl_path, document)
    /\ pc' = "detector_done"
    /\ UNCHANGED <<arelle_runner, facts, concept_resolutions, validation_result, resolverVars, ruleVars,
                   hybridVars, xbrl_path, document, parsed_data>>

NextDetector == Detect

SpecDetector == InitDetector /\ [][NextDetector]_vars

\* C12: the detector returns one of arch_1_0, arch_2_0, unknown for every
\* path, including empty, non-existent and unparseable files, and never raises
C12_DetectorTotal ==
    pc = "detector_done" => detected \in {"arch_1_0", "arch_2_0", "unknown"}

\* the detector was given a file it cannot parse and answered unknown
C12_Witness ==
    /\ pc = "detector_done"
    /\ ~document.parses
    /\ detected = "unknown"

\* a namespace URI of the document matches a pattern of some generation
SomeNamespaceMatches(doc) ==
    \E ns \in doc.declared :
       \/ NamespaceMatches(ns.uri, arch_1_0_patterns, ArchitectureNamespaces("arch_1_0"))
       \/ NamespaceMatches(ns.uri, arch_2_0_patterns, ArchitectureNamespaces("arch_2_0"))

\* the filename tokens that stand for the legacy generation
LegacyTokens == arch_1_0_filename_patterns \cup {"2021", "2020", "phase2", "fulltaxonomy3"}

skip_namespaces ==
    {"http://www.xbrl.org/2003/instance", "http://www.w3.org/2001/XMLSchema-instance",
     "http://www.xbrl.org/2003/linkbase", "http://www.w3.org/1999/xlink",
     "http://www.w3.org/2001/XMLSchema"}

fact_structural_elements ==
    {"facts", "contexts", "units", "namespaces", "parsing_statistics", "file_path",
     "context", "unit", "schemaRef", "linkbaseRef", "roleRef", "arcroleRef"}

\* element.get(key)
ElementGet(element, key) ==
    IF \E a \in element.attrib : a.key = key
    THEN (CHOOSE a \in element.attrib : a.key = key).value
    ELSE NoneVal

\* the namespaces dictionary as a set of prefix/uri pairs: the root's
\* declarations, completed from the whole tree when there are fewer than three
_extract_namespaces(doc) ==
    LET from_root == NamespacesOfAttribs(doc.root_attrib)
    IN  IF Cardinality(from_root) < 3
        THEN from_root \cup {ns \in NamespacesOfAttribs(IterAttribs(doc)) :
                                \A r \in from_root : r.prefix # ns.prefix}
        ELSE from_root

_find_namespace_prefix(namespace_uri, namespaces) ==
    IF \E ns \in namespaces : ns.uri = namespace_uri
    THEN (CHOOSE ns \in namespaces : ns.uri = namespace_uri).prefix
    ELSE NoneVal

\* f"ns{len([p for p in namespaces.keys() if p.startswith('ns')])}"
TemporaryPrefix(namespaces) ==
    "ns" \o IntToStr(Cardinality({ns \in namespaces : StartsWithAny(ns.prefix, {"ns"})}))

\* the elements the extraction loop does not skip
IsFactElement(element) ==
    /\ element.namespace_uri # ""
    /\ element.namespace_uri \notin skip_namespaces
    /\ Lower(element.local_name) \notin fact_structural_elements

\* one pass of the loop of _parse_facts over an element
ParseElement(state, element) ==
    IF ~IsFactElement(element) THEN state
    ELSE LET found == _find_namespace_prefix(element.namespace_uri, state.namespaces)
             prefix == IF found \in {NoneVal, ""} THEN TemporaryPrefix(state.namespaces)
                       ELSE found
             fact_name == prefix \o ":" \o element.local_name
             fact_data == [value |-> element.value,
                           context_ref |-> ElementGet(element, "contextRef"),
                           unit_ref |-> ElementGet(element, "unitRef"),
                           prefix |-> prefix, local_name |-> element.local_name,
                           namespace_uri |-> element.namespace_uri,
                           is_business_concept |->
                               _is_business_concept(prefix, element.local_name)]
         IN  [namespaces |-> state.namespaces
                                \cup {[prefix |-> prefix, uri |-> element.namespace_uri]},
              facts |->
                 IF \E i \in 1..Len(state.facts) : state.facts[i].name = fact_name
                 THEN [i \in 1..Len(state.facts) |->
                         IF state.facts[i].name = fact_name
                         THEN [name |-> fact_name, is_list |-> TRUE,
                               items |-> Append(state.facts[i].items, fact_data)]
                         ELSE state.facts[i]]
                 ELSE Append(state.facts, [name |-> fact_name, is_list |-> FALSE,
                                           items |-> <<fact_data>>])]

\* the facts dictionary in insertion order
_parse_facts(elements, namespaces) ==
    LET after[k \in 0..Len(elements)] ==
            IF k = 0 THEN [namespaces |-> namespaces, facts |-> <<>>]
            ELSE ParseElement(after[k - 1], elements[k])
    IN  after[Len(elements)].facts

Context(id, entity_present, segment_dimensions, scenario_present, scenario_dimensions) ==
    [id |-> id,
     entity |-> [present |-> entity_present, segment |-> segment_dimensions],
     scenario |-> [present |-> scenario_present, dimensions |-> scenario_dimensions]]

\* the context_data dictionaries, keyed by id; entity and scenario stay None
\* when the context has no such child
_parse_contexts(doc) == doc.contexts

\* enriched, or raised: .get('scenario', {}) gives None for a context parsed
\* without a scenario, and .get('entity', {}) for one without an entity
_enrich_single_fact(fact_data, contexts) ==
    LET has_context == /\ fact_data.context_ref \notin {NoneVal, ""}
                       /\ \E c \in contexts : c.id = fact_data.context_ref
        context == CHOOSE c \in contexts : c.id = fact_data.context_ref
        Enriched(has_dimensions) ==
            [raised |-> FALSE,
             fact |-> [value |-> fact_data.value, context_ref |-> fact_data.context_ref,
                       unit_ref |-> fact_data.unit_ref, prefix |-> fact_data.prefix,
                       local_name |-> fact_data.local_name,
                       namespace_uri |-> fact_data.namespace_uri,
                       is_business_concept |-> fact_data.is_business_concept,
                       context_details |-> IF has_context THEN context.id ELSE NoneVal,
                       has_dimensions |-> has_dimensions]]
    IN  IF ~has_context THEN Enriched(FALSE)
        ELSE IF ~context.scenario.present THEN [raised |-> TRUE]
        ELSE IF context.scenario.dimensions # {} THEN Enriched(TRUE)
        ELSE IF ~context.entity.present THEN [raised |-> TRUE]
        ELSE Enriched(context.entity.segment # {})

\* the enriched dictionary, or raised when the enrichment of an item raises
_enrich_facts_with_context(fs, contexts) ==
    IF \E i \in 1..Len(fs) : \E k \in 1..Len(fs[i].items) :
           _enrich_single_fact(fs[i].items[k], contexts).raised
    THEN [raised |-> TRUE]
    ELSE [raised |-> FALSE,
          facts |-> [i \in 1..Len(fs) |->
                       [name |-> fs[i].name, is_list |-> fs[i].is_list,
                        items |-> [k \in 1..Len(fs[i].items) |->
                                     _enrich_single_fact(fs[i].items[k], contexts).fact]]]]

parse_xbrl_instance(doc) ==
    IF ~doc.parses THEN [error |-> "XML parsing failed", facts |-> <<>>]
    ELSE LET enriched == _enrich_facts_with_context(
                             _parse_facts(doc.elements, _extract_namespaces(doc)),
                             _parse_contexts(doc))
         IN  IF enriched.raised THEN [error |-> "XBRL parsing failed", facts |-> <<>>]
             ELSE [error |-> NoneVal, facts |-> enriched.facts]

(***************************************************************************)
(* Inputs of SpecParser: documents of up to MaxElements children.          *)
(***************************************************************************)
MaxElements == 3

TestParserElements ==
    {Element(MetUri, "mi53", "c1"), Element(MetUri, "mi53", "c2"),
     Element(MetUri, "mi53", "c9"),
     Element("http://www.eba.europa.eu/xbrl/crr/dict/dim", "x1", "c1"),
     Element("http://www.xbrl.org/2003/linkbase", "schemaRef", NoneVal),
     Element(MetUri, "schemaRef", NoneVal), Element(MetUri, "Unit", NoneVal)}

\* no context; contexts with dimensions in their scenario; a context with no
\* scenario; a context with an empty scenario and a segment
TestContexts ==
    {{},
     {Context("c1", TRUE, {}, TRUE, {"d:A"}), Context("c2", TRUE, {}, TRUE, {"d:B"})},
     {Context("c1", TRUE, {"d:A"}, TRUE, {}), Context("c2", TRUE, {}, TRUE, {})},
     {Context("c1", TRUE, {}, TRUE, {"d:A"}), Context("c2", TRUE, {}, FALSE, {})}}

TestParserDocuments ==
    {[parses |-> FALSE, declared |-> {}, root_attrib |-> {}, elements |-> <<>>,
      contexts |-> {}]}
    \cup {[parses |-> TRUE,
           declared |-> {Declaration("eba_met", MetUri)},
           root_attrib |-> {}, elements |-> elements, contexts |-> contexts] :
             elements \in UNION {[1..n -> TestParserElements] : n \in 0..MaxElements},
             contexts \in TestContexts}

InitParser ==
    /\ IdleArelle
    /\ pc = "parser_ready"
    /\ xbrl_path = "rep.xbrl"
    /\ document \in TestParserDocuments
    /\ detected = NoneVal
    /\ parsed_data = [status |-> "not_run"]
    /\ facts = <<>>
    /\ concept_resolutions = [timestamp |-> NoneVal, resolution_details |-> <<>>]
    /\ IdleValidator
    /\ IdleResolver
    /\ IdleRules
    /\ IdleHybrid

\* fact_parser.parse_xbrl_instance(xbrl_path)
ParseInstance ==
    /\ pc = "parser_ready"
    /\ parsed_data' = parse_xbrl_instance(document)
    /\ pc' = "parser_done"
    /\ UNCHANGED <<arelle_runner, facts, concept_resolutions, validation_result, resolverVars, ruleVars,
                   hybridVars, xbrl_path, document, detected>>

NextParser == ParseInstance

SpecParser == InitParser /\ [][NextParser]_vars

\* the positions, in document order, of the fact elements with a qualified name
Occurrences(elements, namespace_uri, local_name) ==
    SelectSeq([k \in 1..Len(elements) |-> k],
              LAMBDA k : /\ IsFactElement(elements[k])
                         /\ elements[k].namespace_uri = namespace_uri
                         /\ elements[k].local_name = local_name)

\* the entries of the returned facts that hold records of a qualified name
EntriesOf(fs, namespace_uri, local_name) ==
    {i \in 1..Len(fs) : \E k \in 1..Len(fs[i].items) :
        /\ fs[i].items[k].namespace_uri = namespace_uri
        /\ fs[i].items[k].local_name = local_name}

\* the occurrences of a qualified name are one entry of the facts: a single
\* record for one occurrence, a list in document order for more
KeptInOrder(elements, fs, namespace_uri, local_name) ==
    LET occurrences == Occurrences(elements, namespace_uri, local_name)
    IN  occurrences # <<>> =>
          \E i \in 1..Len(fs) :
             /\ EntriesOf(fs, namespace_uri, local_name) = {i}
             /\ Len(fs[i].items) = Len(occurrences)
             /\ fs[i].is_list = (Len(occurrences) >= 2)
             /\ \A k \in 1..Len(occurrences) :
                   fs[i].items[k].context_ref
                      = ElementGet(elements[occurrences[k]], "contextRef")

\* C14: every occurrence of a repeated fact is kept: n >= 2 top-level elements
\* of one qualified name give one entry holding a list of n records in
\* document order, a name occurring once gives a single record, and the
\* enrichment preserves length and order
C14_RepeatedFactsKept ==
    (pc = "parser_done" /\ document.parses) =>
        \A e \in {document.elements[k] : k \in 1..Len(document.elements)} :
            KeptInOrder(document.elements, parsed_data.facts, e.namespace_uri, e.local_name)

(***************************************************************************)
(* Failure handling of validate_hybrid (SpecHybrid)                        *)
(***************************************************************************)
\* C15: a malformed instance is fatal for the run: validate_hybrid reports a
\* top-level error and no final report, so no later stage runs and no overall
\* status is derived from the empty fact set
C15_MalformedInstanceIsFatal ==
    (pc = "hybrid_done" /\ parsed_data.error # NoneVal)
        => /\ ~HasKey(hybrid_result, "final_report")
           /\ HasKey(hybrid_result, "status") /\ hybrid_result.status = "error"

\* C16: when the external validator stage ends with status error or
\* unavailable, the run still reaches synthesis and the final report holds an
\* error-severity issue for that failure, which counts in total_errors
C16_ExternalFailureSurfaced ==
    (/\ pc = "hybrid_done"
     /\ hybrid_result.stages.arelle_validation.status \in {"error", "unavailable"})
        => /\ HasKey(hybrid_result, "final_report")
           /\ \E i \in 1..Len(MergedIssues) : MergedIssues[i].severity = "error"
           /\ hybrid_result.final_report.total_errors >= 1

\* the rule table of the store is absent, or the rule query on it fails
RuleLoadFails(store) ==
    /\ store.available
    /\ ~TableMapped(store, "tValidationRule") \/ store.rule_query_fails

\* C17: when the rule table is absent or the rule query fails, the loader
\* returns an empty result, the rule engine holds an empty rule set, and the
\* run still does concept resolution and external validation
C17_RuleLoadFailureIsNotFatal ==
    (/\ pc = "hybrid_done"
     /\ engine.dmp_available
     /\ RuleLoadFails(ActiveStore(dmp_db)))
        => /\ load_validation_rules(dmp_db) = <<>>
           /\ rules_cache = <<>>
           /\ hybrid_result.stages.dmp_concept_resolution.status = "completed"
           /\ hybrid_result.stages.dmp_concept_resolution.business_facts
                 = Len(SelectSeq(facts, ResolvableFact))
           /\ engine.arelle_available
                 => hybrid_result.stages.arelle_validation
                       = validate_with_arelle(run_input.taxonomy_path, run_input.arelle)
           /\ HasKey(hybrid_result, "final_report")

\* a store whose rule table is absent, a fact resolved in it, no rule
\* evaluated, and the external validator completed
C17_Witness ==
    /\ pc = "hybrid_done"
    /\ engine.dmp_available
    /\ RuleLoadFails(ActiveStore(dmp_db))
    /\ ActiveStore(dmp_db).validation_rules # <<>>
    /\ rules_cache = <<>>
    /\ \E i \in 1..Len(RunResolutionDetails) : RunResolutionDetails[i].resolved
    /\ hybrid_result.stages.dmp_rule_validation.status = "completed"
    /\ hybrid_result.stages.dmp_rule_validation.total_rules_evaluated = 0
    /\ hybrid_result.stages.arelle_validation.status = "completed"

\* the external validator stage of the finished run is what the runner
\* returned, or skipped for an engine without a runner
ExternalStageExecuted ==
    hybrid_result.stages.arelle_validation
        = IF engine.arelle_available
          THEN validate_with_arelle(
                   IF HasKey(hybrid_result.stages.taxonomy_processing, "extraction_dir")
                   THEN hybrid_result.stages.taxonomy_processing.extraction_dir
                   ELSE run_input.taxonomy_path,
                   run_input.arelle)
          ELSE SkippedStage("arelle_unavailable")

C19_RuleResultsOrderedByCode ==
    pc = "rules_done" =>
        \A i, j \in 1..Len(rule_validation.rule_results) :
            i < j => ~CodeLess(rule_validation.rule_results[j].rule_code,
                               rule_validation.rule_results[i].rule_code)

(***************************************************************************)
(* The dictionary-generation probe of the resolver (SpecResolver)          *)
(***************************************************************************)
\* two calls made over the same store connection
SameConnection(c, d) == c.db_path = d.db_path /\ c.reinitialized = d.reinitialized

\* C20: the dictionary-generation probe runs at most once per store
\* connection, however many names are resolved over it
C20_ProbeOncePerConnection ==
    /\ \A i \in 1..Len(calls) : calls[i].probes <= 1
    /\ \A i, j \in 1..Len(calls) :
          (i < j /\ SameConnection(calls[i], calls[j]))
             => calls[i].probes + calls[j].probes <= 1

\* the rule kind a declared rule type names, NoneVal when it names none
DeclaredKind(rule_type) ==
    IF Contains(Lower(rule_type), "calculation") THEN "calculation_check"
    ELSE IF Contains(Lower(rule_type), "existence") THEN "existence_check"
    ELSE IF Contains(Lower(rule_type), "consistency") THEN "consistency_check"
    ELSE IF Contains(Lower(rule_type), "conditional") THEN "conditional_check"
    ELSE NoneVal

\* the rule kind the literal operator tokens of an expression indicate,
\* NoneVal when the expression holds none of the tokens
TokenKind(expression) ==
    IF Contains(Lower(expression), "sum(") THEN "calculation_check"
    ELSE IF Contains(Lower(expression), "exists(") THEN "existence_check"
    ELSE IF HasComparison(expression) THEN "consistency_check"
    ELSE IF Contains(Lower(expression), "if") THEN "conditional_check"
    ELSE NoneVal

\* the declared type and the literal tokens of a rule indicate different kinds
KindsDisagree(rule) ==
    /\ DeclaredKind(rule.RuleType) # NoneVal
    /\ TokenKind(rule.Expression) # NoneVal
    /\ DeclaredKind(rule.RuleType) # TokenKind(rule.Expression)

\* C21: when the declared rule type and the literal operator tokens of the
\* expression indicate different rule kinds, the execution method of the
\* processed rule is the one the literal tokens indicate.
C21_LiteralTokensTakePrecedence ==
    \A i \in 1..Len(rules_cache) :
        KindsDisagree(rules_cache[i])
            => rules_cache[i].execution_method = TokenKind(rules_cache[i].Expression)

\* a concept of the rule is the concept code of a resolved fact
MatchesResolvedCode(rule) ==
    \E c \in rule.parsed_expression.concepts :
       \E k \in 1..Len(concept_resolutions.resolution_details) :
          /\ concept_resolutions.resolution_details[k].resolved
          /\ concept_resolutions.resolution_details[k].concept_code = c

\* a concept of the rule equals a fact name or a fact's local name, or occurs
\* inside a fact name
MatchesFactName(rule) ==
    \E c \in rule.parsed_expression.concepts :
       \E k \in 1..Len(facts) :
          \/ c = facts[k].name
          \/ Colons(facts[k].name) # {} /\ c = AfterLastColon(facts[k].name)
          \/ Contains(facts[k].name, c)

\* C22: a rule with no referenced concept is always selected; a rule with
\* referenced concepts is selected exactly when one of them is a resolved
\* concept code, equals a fact name or a fact's local name, or occurs inside
\* a fact name; the rules evaluated are exactly the selected ones.
C22_ApplicableRulesOnly ==
    pc = "rules_done" =>
        /\ \A i \in 1..Len(rules_cache) :
              LET rule == rules_cache[i]
                  selected == rule.parsed_expression.concepts = {}
                                  \/ MatchesResolvedCode(rule) \/ MatchesFactName(rule)
              IN  Len(ResultsOfRule(rule.RuleCode)) = (IF selected THEN 1 ELSE 0)
        /\ \A k \in 1..Len(rule_validation.rule_results) :
              \E i \in 1..Len(rules_cache) :
                 rules_cache[i].RuleCode = rule_validation.rule_results[k].rule_code

\* a run over two rules with referenced concepts: one is evaluated because
\* a fact resolved to its concept although no fact name holds the concept,
\* the other matches nothing and is not evaluated
C22_Witness ==
    /\ pc = "rules_done"
    /\ Len(rules_cache) = 2
    /\ \E i, j \in 1..2 :
          /\ rules_cache[i].parsed_expression.concepts # {}
          /\ MatchesResolvedCode(rules_cache[i])
          /\ ~MatchesFactName(rules_cache[i])
          /\ Len(ResultsOfRule(rules_cache[i].RuleCode)) = 1
          /\ rules_cache[j].parsed_expression.concepts # {}
          /\ ResultsOfRule(rules_cache[j].RuleCode) = <<>>

(***************************************************************************)
(* The resolution rate of the resolution stage (SpecHybrid)                *)
(***************************************************************************)
\* the text is digits, a point, one digit and a percent sign
OneDecimalPercent(text) ==
    /\ Len(text) >= 4
    /\ Char(text, Len(text)) = "%"
    /\ Char(text, Len(text) - 1) \in Digits
    /\ Char(text, Len(text) - 2) = "."
    /\ \A k \in 1..(Len(text) - 3) : Char(text, k) \in Digits
    /\ Len(text) > 4 => Char(text, 1) # "0"

\* t tenths of a percent is a nearest tenth to resolved / business * 100
NearestTenth(t, resolved, business) ==
    LET diff == t * business - resolved * 1000
    IN  2 * (IF diff < 0 THEN 0 - diff ELSE diff) <= business

\* C23: the resolution rate of the resolution stage is resolved_facts /
\* business_facts * 100 written with exactly one decimal and a percent sign,
\* the literal 0% when there is no business fact, and lies between 0.0% and
\* 100.0%.
C23_ResolutionRateFormat ==
    (pc = "hybrid_done" /\ HasKey(hybrid_result.stages.dmp_concept_resolution, "resolution_rate"))
        => LET stage == hybrid_result.stages.dmp_concept_resolution
           IN  IF stage.business_facts = 0
               THEN stage.resolution_rate = "0%"
               ELSE /\ OneDecimalPercent(stage.resolution_rate)
                    /\ NearestTenth(ParseRate(stage.resolution_rate),
                                    stage.resolved_facts, stage.business_facts)
                    /\ ParseRate(stage.resolution_rate) \in 0..1000

\* two of three business facts resolved: the rate is rounded up to 66.7%
C23_Witness ==
    /\ pc = "hybrid_done"
    /\ HasKey(hybrid_result.stages.dmp_concept_resolution, "resolution_rate")
    /\ hybrid_result.stages.dmp_concept_resolution.business_facts = 3
    /\ hybrid_result.stages.dmp_concept_resolution.resolved_facts = 2
    /\ hybrid_result.stages.dmp_concept_resolution.resolution_rate = "66.7%"

(***************************************************************************)
(* The existence evaluation (SpecRules)                                    *)
(***************************************************************************)
\* the concept is a substring of some fact name, or equals some fact name or
\* its local name
ConceptFound(concept) ==
    \E k \in 1..Len(facts) :
       \/ Contains(facts[k].name, concept)
       \/ concept = facts[k].name
       \/ concept = AfterLastColon(facts[k].name)

\* C24: the existence evaluation finds a referenced concept exactly when it
\* is a substring of some fact name or equals some fact name or its local
\* name, whether or not the fact name is namespace-qualified; the rule is
\* passed exactly when every referenced concept is found, and otherwise
\* failed with exactly the concepts not found as its missing concepts.
C24_ExistenceBySubstring ==
    pc = "rules_done" =>
        \A i \in 1..Len(rules_cache) :
            (/\ rules_cache[i].execution_method = "existence_check"
             /\ rules_cache[i].RuleCode \notin raising
             /\ ResultsOfRule(rules_cache[i].RuleCode) # <<>>)
                => LET result == ResultsOfRule(rules_cache[i].RuleCode)[1]
                       not_found == {c \in rules_cache[i].parsed_expression.concepts :
                                        ~ConceptFound(c)}
                   IN  /\ result.status = (IF not_found = {} THEN "passed" ELSE "failed")
                       /\ result.missing_concepts = not_found

(***************************************************************************)
(* Enrichment of the extracted facts (SpecParser)                          *)
(***************************************************************************)
\* the context a record refers to holds a dimensional member in its scenario
\* or in its entity segment
ContextHasDimensions(context_ref) ==
    \E c \in document.contexts :
       /\ c.id = context_ref
       /\ \/ c.scenario.present /\ c.scenario.dimensions # {}
          \/ c.entity.present /\ c.entity.segment # {}

\* C25: enrichment succeeds for every extracted fact: a parseable document is
\* never answered with an error, every fact element is returned, and
\* has_dimensions of every record is true exactly when the referenced context
\* holds a dimensional member in its scenario or entity segment, also when
\* the context has no scenario or no entity or the reference matches no
\* context.
C25_EnrichmentTotal ==
    (pc = "parser_done" /\ document.parses) =>
        /\ parsed_data.error = NoneVal
        /\ (\E k \in 1..Len(document.elements) : IsFactElement(document.elements[k]))
              => parsed_data.facts # <<>>
        /\ \A i \in 1..Len(parsed_data.facts) :
              \A k \in 1..Len(parsed_data.facts[i].items) :
                 parsed_data.facts[i].items[k].has_dimensions
                    = ContextHasDimensions(parsed_data.facts[i].items[k].context_ref)

(***************************************************************************)
(* Structural elements are no facts (SpecParser)                           *)
(***************************************************************************)
\* the structural local names of an instance document
StructuralLocalNames == {"context", "unit", "schemaRef", "linkbaseRef", "roleRef", "arcroleRef"}

\* C26: no top-level element in an infrastructure namespace, and no element
\* whose local name is one of context, unit, schemaRef, linkbaseRef, roleRef,
\* arcroleRef, whatever its namespace, is extracted as a fact.
C26_StructuralElementsSkipped ==
    (pc = "parser_done" /\ parsed_data.error = NoneVal) =>
        \A i \in 1..Len(parsed_data.facts) :
            \A k \in 1..Len(parsed_data.facts[i].items) :
               /\ parsed_data.facts[i].items[k].namespace_uri \notin skip_namespaces
               /\ parsed_data.facts[i].items[k].local_name \notin StructuralLocalNames

(***************************************************************************)
(* Context and unit references in the database validation stage            *)
(* (SpecHybrid)                                                            *)
(***************************************************************************)
\* the issue types the database validation stage reported for a fact name
ReportedIssueTypes(fact_name) ==
    LET validations == hybrid_result.stages.dmp_validation.fact_validations
    IN  UNION {{validations[i].issues[k].type : k \in 1..Len(validations[i].issues)} :
                  i \in {j \in 1..Len(validations) : validations[j].fact_name = fact_name}}

\* C29: a resolved fact that carries a contextRef in the instance is never
\* reported with a missing_context issue by the database validation stage,
\* and one that carries a unitRef never with a missing_unit issue.
C29_ReferencesReadAsStored ==
    (pc = "hybrid_done" /\ hybrid_result.stages.dmp_validation.status = "completed")
        => \A i \in 1..Len(facts) :
              (~facts[i].is_list /\ ResolvedInRun(facts[i].name))
                  => /\ facts[i].items[1].context_ref \notin {NoneVal, ""}
                        => "missing_context" \notin ReportedIssueTypes(facts[i].name)
                     /\ facts[i].items[1].unit_ref \notin {NoneVal, ""}
                        => "missing_unit" \notin ReportedIssueTypes(facts[i].name)

(***************************************************************************)
(* A sequence of validate_hybrid calls on one engine (SpecArchitecture)    *)
(***************************************************************************)
MaxRuns == 2

\* os.path.basename(ARCHITECTURES[version]['dmp_db_path']) and
\* ARCHITECTURES[version]['taxonomy_folder']
ArchitectureConfig(version) ==
    CASE version = "arch_1_0" -> [dmp_database |-> "DPM_Database_3.3.phase3.accdb",
                                  taxonomy_folder |-> "FullTaxonomy3.0.1.errata3"]
      [] version = "arch_2_0" -> [dmp_database |-> "DPM_Database_v4_0_20241218.accdb",
                                  taxonomy_folder |-> "taxo_package_4.0_errata5"]

\* the head of validation_result: the engine's config and dmp_db_path are
\* those of its architecture_version, and None for an engine that has none
\* or whose detection gave unknown
ResultHeader(eng) ==
    LET configured == eng.architecture_version \in {"arch_1_0", "arch_2_0"}
    IN  [architecture_version |-> IF eng.architecture_version = NoneVal THEN "unknown"
                                  ELSE eng.architecture_version,
         dmp_database |-> IF configured
                          THEN ArchitectureConfig(eng.architecture_version).dmp_database
                          ELSE NoneVal,
         taxonomy_used |-> IF configured
                           THEN ArchitectureConfig(eng.architecture_version).taxonomy_folder
                           ELSE NoneVal]

\* the facts of the parser as the later stages read them: .get('context') and
\* .get('unit') of a fact_data dictionary of the parser give None
ParserFacts(fs) ==
    [i \in 1..Len(fs) |->
        [name |-> fs[i].name, is_list |-> fs[i].is_list,
         items |-> [k \in 1..Len(fs[i].items) |->
                      [value |-> fs[i].items[k].value,
                       context_ref |-> fs[i].items[k].context_ref,
                       unit_ref |-> fs[i].items[k].unit_ref,
                       context |-> NoneVal, unit |-> NoneVal,
                       prefix |-> fs[i].items[k].prefix,
                       local_name |-> fs[i].items[k].local_name,
                       is_business_concept |-> fs[i].items[k].is_business_concept]]]]

FindUri == "http://www.eba.europa.eu/xbrl/crr/dict/dpm/4.0/find"

\* instance files: two well-formed ones, whose names make the detector answer
\* arch_2_0 and arch_1_0, and two that are not well-formed
TestInstances ==
    {[path |-> path,
      document |-> [parses |-> TRUE, declared |-> {Declaration("find", FindUri)},
                    root_attrib |-> {}, elements |-> <<Element(FindUri, "mi53", "c1")>>,
                    contexts |-> {Context("c1", TRUE, {}, TRUE, {"d:A"})}]] :
        path \in {"rep.xbrl", "report2020.xbrl"}}
    \cup {[path |-> path,
           document |-> [parses |-> FALSE, declared |-> {}, root_attrib |-> {},
                         elements |-> <<>>, contexts |-> {}]] :
             path \in {"bad.xbrl", "bad_2020.xbrl"}}

InitArchitecture ==
    /\ IdleArelle
    /\ pc = "engine_ready"
    /\ dmp_db \in {[db_path |-> "dmp_4_0_path", dmp_3_3 |-> pair[1], dmp_4_0 |-> pair[2]] :
                      pair \in HybridStorePairs}
    /\ \E architecture_version \in {NoneVal, "arch_1_0", "arch_2_0"}, arelle_available \in BOOLEAN :
          engine = NewEngine(dmp_db, architecture_version, arelle_available)
    /\ rules_cache = IF engine.dmp_available
                     THEN _initialize_rules(load_validation_rules(dmp_db)) ELSE <<>>
    /\ concept_cache = [n \in {} |-> NoConcept]
    /\ calls = <<>>
    /\ reinitialized = 0
    /\ facts = <<>>
    /\ concept_resolutions = [timestamp |-> NoneVal, resolution_details |-> <<>>]
    /\ run_input = NoneVal
    /\ hybrid_result = [status |-> "not_run"]
    /\ raising = {}
    /\ rule_validation = [status |-> "not_run"]
    /\ IdleValidator
    /\ IdleInstance

\* one call engine.validate_hybrid(xbrl_path, None, auto_detect_architecture)
\* of a sequence of calls on the same engine; the detection runs only while
\* the engine has no architecture_version, and ARCHITECTURES['unknown'] raises
\* KeyError after the engine's architecture_version was set
ValidateHybridCall ==
    /\ pc = "engine_ready"
    /\ Len(calls) < MaxRuns
    /\ \E instance \in TestInstances, auto_detect_architecture \in BOOLEAN :
       \E detected_architecture \in
              {IF auto_detect_architecture /\ engine.architecture_version = NoneVal
               THEN detect_architecture_version(instance.path, instance.document)
               ELSE NoneVal} :
          /\ xbrl_path' = instance.path
          /\ document' = instance.document
          /\ detected' = detected_architecture
          /\ IF detected_architecture = "unknown"
             THEN /\ engine' = [engine EXCEPT !.architecture_version = "unknown"]
                  /\ hybrid_result' = [raised |-> "KeyError"]
                  /\ calls' = Append(calls, [xbrl_path |-> instance.path,
                                             document |-> instance.document,
                                             auto_detect |-> auto_detect_architecture,
                                             raised |-> TRUE,
                                             header |-> ResultHeader(engine')])
                  /\ UNCHANGED <<dmp_db, reinitialized, rules_cache, facts, run_input,
                                 concept_cache, parsed_data>>
             ELSE
             LET detects == detected_architecture # NoneVal
                 eng == IF detects THEN DetectedEngine(engine, dmp_db, detected_architecture)
                        ELSE engine
                 reinit == detects /\ eng.dmp_available
                 db == IF reinit THEN switch_database(dmp_db, detected_architecture) ELSE dmp_db
                 rules == IF reinit THEN _initialize_rules(load_validation_rules(db))
                          ELSE rules_cache
             IN  \E parsed \in {parse_xbrl_instance(instance.document)} :
                 \E fs \in {ParserFacts(parsed.facts)} :
                 \E dmp_resolution \in {_resolve_concepts_in_dmp(fs, db, concept_cache)} :
                 \E store_stages \in {StoreStages(eng, dmp_resolution, rules, fs)} :
                 \E cache \in {IF eng.dmp_available
                               THEN ResolveLoop(fs, db, concept_cache).cache
                               ELSE concept_cache} :
                 \E input \in {[taxonomy_path |-> NoneVal,
                                arelle |-> IF eng.arelle_available
                                           THEN ArelleOutcome("completed", <<>>, <<>>)
                                           ELSE ArelleOutcome("unavailable", <<>>, <<>>)]} :
                 \E stages \in {HybridStages(eng, store_stages, input)} :
                    /\ engine' = eng
                    /\ dmp_db' = db
                    /\ reinitialized' = IF db.db_path # dmp_db.db_path
                                        THEN reinitialized + 1 ELSE reinitialized
                    /\ rules_cache' = rules
                    /\ facts' = fs
                    /\ parsed_data' = parsed
                    /\ run_input' = input
                    /\ concept_cache' = cache
                    /\ hybrid_result' =
                           [architecture_version |-> ResultHeader(eng).architecture_version,
                            dmp_database |-> ResultHeader(eng).dmp_database,
                            taxonomy_used |-> ResultHeader(eng).taxonomy_used,
                            stages |-> stages,
                            final_report |-> _synthesize_results(stages)]
                    /\ calls' = Append(calls, [xbrl_path |-> instance.path,
                                               document |-> instance.document,
                                               auto_detect |-> auto_detect_architecture,
                                               raised |-> FALSE,
                                               header |-> ResultHeader(eng)])
    /\ UNCHANGED <<arelle_runner, pc, concept_resolutions, validation_result, raising, rule_validation>>

NextArchitecture == ValidateHybridCall

SpecArchitecture == InitArchitecture /\ [][NextArchitecture]_vars

\* C27: every call with auto-detection enabled on a document the detector
\* assigns to an architecture reports that architecture, its dictionary
\* database and its taxonomy folder, whatever the engine was constructed with
\* and whatever an earlier call on the same engine detected.
C27_ArchitectureFromOwnDocument ==
    \A i \in 1..Len(calls) :
        (calls[i].auto_detect /\ ~calls[i].raised)
            => LET version == detect_architecture_version(calls[i].xbrl_path,
                                                          calls[i].document)
               IN  version \in {"arch_1_0", "arch_2_0"}
                      => /\ calls[i].header.architecture_version = version
                         /\ calls[i].header.dmp_database
                               = ArchitectureConfig(version).dmp_database
                         /\ calls[i].header.taxonomy_used
                               = ArchitectureConfig(version).taxonomy_folder

(***************************************************************************)
(* The resolver's cache across a switch of the dictionary (SpecResolver)   *)
(***************************************************************************)
\* what the dictionary active at a recorded call answers for the call's name
\* when it is asked
AnswerOfActiveStore(call) ==
    resolve_concept_from_dmp([dmp_db EXCEPT !.db_path = call.db_path],
                             [n \in {} |-> NoConcept], call.concept_name).result

\* C28: a Concept returned by resolve_concept_from_dmp comes from the
\* dictionary active at the time of the call; after switch_database changed
\* the active dictionary, no name is answered from a cache entry resolved
\* against the dictionary that was active before.
C28_AnswerFromActiveStore ==
    \A i \in 1..Len(calls) :
        calls[i].result.found => calls[i].result = AnswerOfActiveStore(calls[i])

(***************************************************************************)
(* The external validator's result cache and its consumer (SpecArelle).    *)
(* A text is modelled by text.split('\n'), the sequence of its lines; the  *)
(* empty text is <<"">>.                                                   *)
(***************************************************************************)
MaxValidations == 2

EmptyText == <<"">>

\* a + b for two texts
ConcatText(a, b) == SubSeq(a, 1, Len(a) - 1) \o <<a[Len(a)] \o Head(b)>> \o Tail(b)

\* dict.get(key, default)
DictGet(dict, key, default) == IF key \in DOMAIN dict THEN dict[key] ELSE default

StrippedLines(text) == SelectSeq([i \in 1..Len(text) |-> Strip(text[i])], LAMBDA l : l # "")

IsErrorLine(line) == ContainsAny(Upper(line), {"[ERROR]", "ERROR:", "EXCEPTION", "FATAL"})
IsWarningLine(line) ==
    ~IsErrorLine(line) /\ ContainsAny(Upper(line), {"[WARNING]", "WARNING:", "INCONSISTENCY"})
IsInfoLine(line) ==
    /\ ~IsErrorLine(line)
    /\ ~IsWarningLine(line)
    /\ ContainsAny(Upper(line), {"[INFO]", "INFO:", "VALIDATION"})

\* ArelleRunner._parse_arelle_output(stdout, stderr, return_code)
_parse_arelle_output(stdout, stderr, return_code) ==
    LET lines == StrippedLines(ConcatText(stdout, stderr))
        errors == SelectSeq(lines, IsErrorLine)
        warnings == SelectSeq(lines, IsWarningLine)
    IN  [errors |-> errors,
         warnings |-> warnings,
         info_messages |-> SelectSeq(lines, IsInfoLine),
         summary |-> [total_errors |-> Len(errors),
                      total_warnings |-> Len(warnings),
                      validation_passed |-> (return_code = 0 /\ Len(errors) = 0),
                      return_code |-> return_code],
         raw_output |-> [stdout |-> stdout, stderr |-> stderr]]

\* ArelleRunner._execute_arelle_validation: what subprocess.run did is an
\* input, [kind |-> "exit", returncode, stdout, stderr], "timeout" or "raises"
_execute_arelle_validation(outcome) ==
    IF outcome.kind = "exit"
    THEN [status |-> "completed",
          return_code |-> outcome.returncode,
          validation_successful |-> (outcome.returncode = 0)]
         @@ _parse_arelle_output(outcome.stdout, outcome.stderr, outcome.returncode)
    ELSE IF outcome.kind = "timeout"
    THEN [status |-> "timeout", error |-> "Arelle validation timed out after 120 seconds"]
    ELSE [status |-> "error", error |-> outcome.message]

\* ArelleRunner._generate_cache_key(xbrl_path, taxonomy_path): the digest of
\* the two paths and the two modification times
_generate_cache_key(instance, entry_point) ==
    <<instance.path, instance.mtime, entry_point.path, entry_point.mtime>>

\* ArelleRunner._get_cached_result(cache_key)
_get_cached_result(result_cache, cache_key) ==
    IF cache_key \in DOMAIN result_cache THEN result_cache[cache_key] ELSE NoneVal

\* the dictionary without one key
WithoutKey(dict, key) == [k \in DOMAIN dict \ {key} |-> dict[k]]

\* ArelleRunner._cache_result(cache_key, result): the cache after the call
_cache_result(result_cache, cache_key, result) ==
    LET cached_result == WithoutKey(result, "raw_output")
    IN  [k \in DOMAIN result_cache \cup {cache_key} |->
            IF k = cache_key THEN cached_result ELSE result_cache[k]]

\* ArelleRunner.validate_with_arelle(xbrl_path, taxonomy_path): the returned
\* dictionary, the result cache after the call and whether the validator ran;
\* processed_taxonomy is what _process_taxonomy(taxonomy_path) returned
ArelleRunner_validate_with_arelle(runner, instance, taxonomy_path, processed_taxonomy, outcome) ==
    IF ~runner.arelle_available
    THEN [result |-> [method |-> "arelle_fallback", status |-> "unavailable",
                      message |-> "Arelle is not installed or accessible"],
          result_cache |-> runner.result_cache, executed |-> FALSE]
    ELSE LET running_result ==
                 [method |-> "arelle_fallback", status |-> "running",
                  files |-> [xbrl_file |-> instance.path, taxonomy_file |-> taxonomy_path]]
         IN  IF ~processed_taxonomy.success
             THEN [result |-> [status |-> "error", error |-> processed_taxonomy.error]
                              @@ running_result,
                   result_cache |-> runner.result_cache, executed |-> FALSE]
             ELSE LET cache_key == _generate_cache_key(instance, processed_taxonomy.entry_point)
                      cached_result == _get_cached_result(runner.result_cache, cache_key)
                  IN  IF cache_key \in DOMAIN runner.result_cache
                      THEN [result |-> [cache_hit |-> TRUE] @@ cached_result,
                            result_cache |-> runner.result_cache, executed |-> FALSE]
                      ELSE LET updated == _execute_arelle_validation(outcome)
                                          @@ [taxonomy_processing |-> processed_taxonomy]
                                          @@ running_result
                           IN  [result |-> updated,
                                result_cache |-> IF updated.status = "completed"
                                                 THEN _cache_result(runner.result_cache,
                                                                    cache_key, updated)
                                                 ELSE runner.result_cache,
                                executed |-> TRUE]

\* ValidationProcessor.run_arelle_validation_minimal: the MockResult built
\* from the dictionary validate_with_arelle returned
MockResult(arelle_result) ==
    IF arelle_result.status = "completed"
    THEN LET raw_output == DictGet(arelle_result, "raw_output", [k \in {} |-> EmptyText])
         IN  [returncode |-> DictGet(arelle_result, "return_code", 1),
              stdout |-> DictGet(raw_output, "stdout", EmptyText),
              stderr |-> DictGet(raw_output, "stderr", EmptyText)]
    ELSE [returncode |-> 1,
          stdout |-> EmptyText,
          stderr |-> <<"[ERROR] ArelleRunner: "
                       \o DictGet(arelle_result, "error", "Unknown validation error")>>]

\* the phrases of _extract_missing_concepts_enhanced, matched without case
MissingConceptMarkers ==
    {"instance facts missing schema concept definition:",
     "facts missing schema concept definition:",
     "missing schema concept:",
     "concept definition not found:",
     "undefined concept:",
     "no concept definition for:"}

\* the first position of sub in s, for s containing sub
IndexOf(s, sub) ==
    Min({i \in 1..(Len(s) + 1 - Len(sub)) : SubSeq(s, i, i + Len(sub) - 1) = sub})

\* s.split(',')
RECURSIVE SplitComma(_)
SplitComma(s) ==
    IF ~Contains(s, ",") THEN <<s>>
    ELSE <<SubSeq(s, 1, IndexOf(s, ",") - 1)>>
         \o SplitComma(SubSeq(s, IndexOf(s, ",") + 1, Len(s)))

\* s.strip('"\'')
RECURSIVE StripQuotes(_)
StripQuotes(s) ==
    IF s = "" THEN ""
    ELSE IF SubSeq(s, 1, 1) \in {"\"", "'"} THEN StripQuotes(SubSeq(s, 2, Len(s)))
    ELSE IF SubSeq(s, Len(s), Len(s)) \in {"\"", "'"} THEN StripQuotes(SubSeq(s, 1, Len(s) - 1))
    ELSE s

\* ([^\n]+) after a phrase and \s*: the rest of the line, or the next line
\* with text when the phrase ends its line
CaptureAfter(lines, i, marker) ==
    LET rest == SubSeq(lines[i], IndexOf(Lower(lines[i]), marker) + Len(marker), Len(lines[i]))
        later == {j \in (i + 1)..Len(lines) : Strip(lines[j]) # ""}
    IN  IF Strip(rest) # "" THEN rest
        ELSE IF later # {} THEN lines[Min(later)]
        ELSE ""

\* the names one captured group gives: split at commas, stripped of blanks
\* and quotes, longer than two characters
CapturedConcepts(capture) ==
    LET parts == SplitComma(capture)
    IN  {c \in {Strip(StripQuotes(Strip(parts[k]))) : k \in {k \in 1..Len(parts) : Strip(parts[k]) # ""}} :
            Len(c) > 2}

IsLetterChar(c) == c \in Letters

CharAt(s, i) == IF i \in 1..Len(s) THEN SubSeq(s, i, i) ELSE ""

\* the end of the run of word characters that starts at position i of s
RECURSIVE WordEnd(_, _)
WordEnd(s, i) == IF IsWordChar(CharAt(s, i + 1)) THEN WordEnd(s, i + 1) ELSE i

\* \b(find:[A-Za-z][A-Za-z0-9_]*)\b without case: the matches in one line
FindTokens(line) ==
    {SubSeq(line, i, WordEnd(line, i + 5)) :
        i \in {i \in 1..(Len(line) - 4) : /\ Lower(SubSeq(line, i, i + 4)) = "find:"
                                    /\ ~IsWordChar(CharAt(line, i - 1))
                                    /\ IsLetterChar(CharAt(line, i + 5))}}

\* the first ':' of s at or after position i with no blank before it, or 0
ColonAfter(s, i) ==
    LET stops == {j \in i..Len(s) : SubSeq(s, j, j) \in {":", " "}}
    IN  IF stops # {} /\ SubSeq(s, Min(stops), Min(stops)) = ":" THEN Min(stops) ELSE 0

\* \b(eba_met[^:\s]*:[A-Za-z][A-Za-z0-9_]*)\b without case: the matches in one line
EbaMetTokens(line) ==
    {SubSeq(line, i, WordEnd(line, ColonAfter(line, i + 7) + 1)) :
        i \in {i \in 1..(Len(line) - 6) : /\ Lower(SubSeq(line, i, i + 6)) = "eba_met"
                                    /\ ~IsWordChar(CharAt(line, i - 1))
                                    /\ ColonAfter(line, i + 7) # 0
                                    /\ IsLetterChar(CharAt(line, ColonAfter(line, i + 7) + 1))}}

\* ValidationProcessor._extract_missing_concepts_enhanced(output): the set of
\* names, output being the sequence of the text's lines
_extract_missing_concepts_enhanced(lines) ==
    UNION {CapturedConcepts(CaptureAfter(lines, i, marker)) :
              <<i, marker>> \in {<<i, marker>> \in (1..Len(lines)) \X MissingConceptMarkers :
                                    Contains(Lower(lines[i]), marker)}}
    \cup UNION {{t \in EbaMetTokens(lines[i]) \cup FindTokens(lines[i]) : Len(t) > 5} :
                   i \in 1..Len(lines)}

\* the dictionary process_arelle_output returns for the names it extracted
\* and the Concepts the resolver gave for them; the entries of 'errors' and
\* 'dmpResults' are numbered in the iteration order of a set, so they are
\* modelled as sets without the numbers
ProcessedResult(returncode, missing_concepts, resolved_concepts) ==
    LET resolved_names == DOMAIN resolved_concepts
        member_resolved == {c \in resolved_names : resolved_concepts[c].source = "tMember"}
        unresolved_concepts == missing_concepts \ resolved_names
        errors == {[concept |-> c,
                    severity |-> IF c \in member_resolved THEN "info" ELSE "warning",
                    code |-> "CONCEPT-RESOLVED"] : c \in resolved_names}
                  \cup {[concept |-> c, severity |-> "error", code |-> "MISSING-CONCEPT"] :
                           c \in unresolved_concepts}
        total_errors == Cardinality(unresolved_concepts)
        is_valid == total_errors = 0 /\ returncode = 0
        rate == (Cardinality(resolved_names) * 100) \div Max({Cardinality(missing_concepts), 1})
    IN  [isValid |-> is_valid,
         status |-> IF is_valid THEN "valid" ELSE "invalid",
         errors |-> errors,
         validationStats |->
             [totalRules |-> Cardinality(errors),
              failedRules |-> Cardinality(unresolved_concepts),
              resolvedRules |-> Cardinality(resolved_names),
              totalErrorsDetected |-> total_errors,
              totalWarningsDetected |-> Cardinality(resolved_names \ member_resolved),
              totalInfoDetected |-> Cardinality(member_resolved),
              conceptResolutionRate |-> rate,
              resolvedConcepts |-> Cardinality(resolved_names),
              memberTableResolutions |-> Cardinality(member_resolved),
              unresolvedConcepts |-> Cardinality(unresolved_concepts)],
         conceptResolution |->
             [resolved |-> resolved_concepts,
              memberResolved |-> member_resolved,
              unresolved |-> unresolved_concepts,
              resolutionRate |-> rate]]

\* the Concepts concept_resolver.resolve_concept_from_dmp gives for the names
\* it resolves
ResolvedConcepts(missing_concepts, db, cache) ==
    LET answers == [c \in missing_concepts |-> resolve_concept_from_dmp(db, cache, c).result]
    IN  [c \in {c \in missing_concepts : answers[c].found} |-> answers[c]]

\* ValidationProcessor.process_arelle_output(arelle_result): the returned
\* dictionary and concept_resolver's cache after the call
process_arelle_output(arelle_result, db, cache) ==
    CHOOSE p \in {[result |-> ProcessedResult(arelle_result.returncode, pair[1], pair[2]),
                   cache |-> [n \in DOMAIN cache \cup DOMAIN pair[2] |->
                                 IF n \in DOMAIN cache THEN cache[n] ELSE pair[2][n]]] :
                     pair \in {<<missing_concepts,
                                 ResolvedConcepts(missing_concepts, db, cache)>> :
                                  missing_concepts \in {_extract_missing_concepts_enhanced(
                                      arelle_result.stdout \o arelle_result.stderr)}}} : TRUE

\* the instance file: its path and its modification time
TestArelleInstances == {[path |-> "inst.xbrl", mtime |-> 1], [path |-> "inst.xbrl", mtime |-> 2]}

\* what _process_taxonomy("dummy_taxonomy.zip") returns: a failure, or the
\* entry point found in the directory the archive was extracted to
TestProcessedTaxonomies ==
    {[success |-> FALSE, error |-> "Taxonomy processing failed: no such file"],
     [success |-> TRUE, entry_point |-> [path |-> "taxonomy_20240101_120000", mtime |-> 1]],
     [success |-> TRUE, entry_point |-> [path |-> "taxonomy_20240101_120001", mtime |-> 1]]}

\* what subprocess.run does
TestProcessOutcomes ==
    {[kind |-> "exit", returncode |-> 0,
      stdout |-> <<"[INFO] validated inst.xbrl", "">>,
      stderr |-> <<"[WARNING] inconsistency in c1", "">>],
     [kind |-> "exit", returncode |-> 1,
      stdout |-> <<"[ERROR] Instance facts missing schema concept definition: find:mi53, met:zz",
                   "">>,
      stderr |-> EmptyText],
     [kind |-> "timeout"],
     [kind |-> "raises", message |-> "No such file or directory: python"]}

InitArelle ==
    /\ pc = "processor_ready"
    /\ \E arelle_available \in BOOLEAN :
          arelle_runner = [arelle_available |-> arelle_available,
                           result_cache |-> [k \in {} |-> NoneVal]]
    /\ dmp_db \in {[db_path |-> "dmp_4_0_path",
                      dmp_3_3 |-> TestStore33({"DimensionalItem", "PrimaryItem", "Item"}),
                      dmp_4_0 |-> s40] : s40 \in TestStores40}
    /\ concept_cache = [n \in {} |-> NoConcept]
    /\ calls = <<>>
    /\ reinitialized = 0
    /\ facts = <<>>
    /\ concept_resolutions = [timestamp |-> NoneVal, resolution_details |-> <<>>]
    /\ IdleValidator
    /\ IdleRules
    /\ IdleHybrid
    /\ IdleInstance

\* validation_processor.run_arelle_validation_minimal(instance_path)
RunArelleValidationMinimal ==
    /\ pc = "processor_ready"
    /\ Len(calls) < MaxValidations
    /\ \E instance \in TestArelleInstances, processed_taxonomy \in TestProcessedTaxonomies,
          outcome \in TestProcessOutcomes :
          \E v \in {ArelleRunner_validate_with_arelle(arelle_runner, instance,
                                                      "dummy_taxonomy.zip",
                                                      processed_taxonomy, outcome)} :
             /\ arelle_runner' = [arelle_runner EXCEPT !.result_cache = v.result_cache]
             /\ calls' = Append(calls, [instance |-> instance,
                                        processed_taxonomy |-> processed_taxonomy,
                                        arelle_result |-> v.result,
                                        executed |-> v.executed,
                                        returned |-> MockResult(v.result),
                                        processed |-> [status |-> "not_run"]])
    /\ pc' = "arelle_returned"
    /\ UNCHANGED <<dmp_db, concept_cache, reinitialized, facts, concept_resolutions,
                   validation_result, ruleVars, hybridVars, instanceVars>>

\* validation_processor.process_arelle_output(arelle_result)
ProcessArelleOutput ==
    /\ pc = "arelle_returned"
    /\ \E p \in {process_arelle_output(calls[Len(calls)].returned, dmp_db, concept_cache)} :
          /\ calls' = [calls EXCEPT ![Len(calls)].processed = p.result]
          /\ concept_cache' = p.cache
    /\ pc' = "processor_ready"
    /\ UNCHANGED <<arelle_runner, dmp_db, reinitialized, facts, concept_resolutions,
                   validation_result, ruleVars, hybridVars, instanceVars>>

NextArelle == RunArelleValidationMinimal \/ ProcessArelleOutput

SpecArelle == InitArelle /\ [][NextArelle]_vars

\* the earlier run whose result a cache hit serves again
FirstRunOf(j) ==
    CHOOSE i \in 1..(j - 1) :
        /\ calls[i].executed
        /\ calls[i].arelle_result.status = "completed"
        /\ calls[i].instance = calls[j].instance
        /\ calls[i].processed_taxonomy = calls[j].processed_taxonomy

IsCacheHit(j) == HasKey(calls[j].arelle_result, "cache_hit")

\* C30: the result cache is transparent. Only results with status completed
\* are served from the cache, and for an unchanged instance and taxonomy a
\* cache hit gives the consumer the return code, errors, warnings and
\* stdout/stderr text of the first, uncached run, so that
\* run_arelle_validation_minimal followed by process_arelle_output yields the
\* same processed result on both runs.
C30_CacheTransparent ==
    \A j \in 1..Len(calls) :
        IsCacheHit(j)
            => /\ calls[j].arelle_result.status = "completed"
               /\ calls[j].arelle_result.return_code
                     = calls[FirstRunOf(j)].arelle_result.return_code
               /\ calls[j].arelle_result.errors = calls[FirstRunOf(j)].arelle_result.errors
               /\ calls[j].arelle_result.warnings = calls[FirstRunOf(j)].arelle_result.warnings
               /\ calls[j].returned = calls[FirstRunOf(j)].returned
               /\ HasKey(calls[j].processed, "isValid")
                     => calls[j].processed = calls[FirstRunOf(j)].processed

====
